---- MODULE Spec2Model ----
(***************************************************************************)
(* Wealth-Management-System: the stored tables (database_manager.py) and   *)
(* the Streamlit handlers of app.py that write them, with the buy-asset    *)
(* workflow (app.py buy_assets) modelled one database call per step.       *)
(*                                                                         *)
(* Money, prices and quantities are exact decimals in the code (Decimal,   *)
(* DECIMAL columns); they are modelled as integers counted in the smallest *)
(* unit.  Python's None and the selectbox entry "None" are the id 0.       *)
(* Every execute_query call opens its own connection and commits on its    *)
(* own, so every database call is one atomic step and sessions interleave  *)
(* between the calls.                                                      *)
(***************************************************************************)
EXTENDS Integers, FiniteSets, Sequences, TLC

\* ---------------------------------------------------------------- bounds
MaxBalance == 4
MaxPrice == 2
MaxQty == 2
MaxTxn == 2

\* ------------------------------------------------------------ id spaces
None == 0
Sessions == {1, 2}
Users == {1, 2}
AccountIds == {1, 2}
AssetIds == {1}
PortfolioIds == {1, 2}
AssetTypeIds == {1, 2}
Prices == 1..MaxPrice
Quantities == 0..MaxQty
Outcomes == {"ok", "error", "noconn"}

VARIABLES
    accounts,       \* table accounts: rows [account_id, user_id, current_balance]
    portfolios,     \* table portfolios: rows [portfolio_id, user_id]
    asset_types,    \* table asset_types: set of asset_type_id (ordered by type_name = by id)
    assets,         \* table assets: rows [asset_id, unit_price]
    investments,    \* table investments: rows
    transactions,   \* table transactions: rows
    session_state,  \* st.session_state of each browser session, with the handler's locals
    pre,            \* observer: per session, the stored tables when its run was submitted
    users,          \* table users: the user_ids registered
    dashboard,      \* per session, what load_data last put in st.session_state to show
    navigation      \* per session: logged_in, user_role, current_page, and the page routed

tables == <<accounts, portfolios, asset_types, assets, investments, transactions>>
vars == <<accounts, portfolios, asset_types, assets, investments, transactions,
          session_state, pre, users, dashboard, navigation>>

\* what the purchase and the price update leave alone
others == <<users, dashboard, navigation>>

\* --------------------------------------------------------- small helpers
Min(S) == CHOOSE x \in S : \A y \in S : x <= y
Max(S) == CHOOSE x \in S : \A y \in S : x >= y

\* the sum of a column over rows
RECURSIVE SumOf(_, _)
SumOf(rows, field) ==
    IF rows = {} THEN 0
    ELSE LET r == CHOOSE x \in rows : TRUE
         IN  r[field] + SumOf(rows \ {r}, field)

\* AUTO_INCREMENT primary key of the next inserted row
lastrowid(rows, key) == IF rows = {} THEN 1 ELSE Max({r[key] : r \in rows}) + 1

\* ------------------------------------------------- database_manager.py
\* a SELECT without the WHERE; get_accounts_by_user is compared with it
accounts_of_any_user(user_id) == accounts

\* SELECT * FROM accounts WHERE user_id = %s
get_accounts_by_user(user_id) == {a \in accounts : a.user_id = user_id}

\* a SELECT without the WHERE; get_portfolios_by_user is compared with it
portfolios_of_any_user(user_id) == portfolios

\* SELECT * FROM portfolios WHERE user_id = %s
get_portfolios_by_user(user_id) == {p \in portfolios : p.user_id = user_id}

\* SELECT ... FROM investments i JOIN portfolios p JOIN asset_types at JOIN assets a
\* WHERE i.user_id = %s   (inner joins: a row needs its portfolio, category and asset)
get_investments_by_user(user_id) ==
    {i \in investments :
        /\ i.user_id = user_id
        /\ \E p \in portfolios : p.portfolio_id = i.portfolio_id
        /\ i.asset_category_id \in asset_types
        /\ \E a \in assets : a.asset_id = i.asset_id}

\* UPDATE accounts SET current_balance = %s WHERE account_id = %s
update_account_balance(rows, account_id, new_balance) ==
    {IF a.account_id = account_id
        THEN [a EXCEPT !.current_balance = new_balance] ELSE a : a \in rows}

\* INSERT INTO assets (name, unit_price, unit_type) VALUES (%s, %s, %s):
\* the price is stored as it is given
add_asset(rows, unit_price) ==
    rows \cup {[asset_id |-> lastrowid(rows, "asset_id"), unit_price |-> unit_price]}

\* UPDATE assets SET unit_price = %s WHERE asset_id = %s
update_asset_price(rows, asset_id, new_unit_price) ==
    {IF a.asset_id = asset_id
        THEN [a EXCEPT !.unit_price = new_unit_price] ELSE a : a \in rows}

\* an UPDATE that sets the amount invested along with the quantity;
\* update_investment is compared with it
update_investment_and_amount(rows, investment_id, quantity) ==
    {IF i.investment_id = investment_id
        THEN [i EXCEPT !.quantity = quantity, !.initial_investment_amount = quantity]
        ELSE i : i \in rows}

\* UPDATE investments SET quantity = %s WHERE investment_id = %s
\* (buy_assets passes quantity only; every other column keeps its value)
update_investment(rows, investment_id, quantity) ==
    {IF i.investment_id = investment_id
        THEN [i EXCEPT !.quantity = quantity] ELSE i : i \in rows}

\* an INSERT that binds quantity and initial_investment_amount the other way
\* round; add_investment is compared with it
add_investment_swapped(rows, user_id, portfolio_id, asset_category_id, asset_id, initial_investment_amount, quantity) ==
    rows \cup {[investment_id |-> lastrowid(rows, "investment_id"),
                user_id |-> user_id,
                portfolio_id |-> portfolio_id,
                asset_category_id |-> asset_category_id,
                asset_id |-> asset_id,
                initial_investment_amount |-> quantity,
                quantity |-> initial_investment_amount]}

\* INSERT INTO investments (...) VALUES (...)
add_investment(rows, user_id, portfolio_id, asset_category_id, asset_id, initial_investment_amount, quantity) ==
    rows \cup {[investment_id |-> lastrowid(rows, "investment_id"),
                user_id |-> user_id,
                portfolio_id |-> portfolio_id,
                asset_category_id |-> asset_category_id,
                asset_id |-> asset_id,
                initial_investment_amount |-> initial_investment_amount,
                quantity |-> quantity]}

\* UPDATE investments SET ... WHERE investment_id = %s with every column given,
\* as the update form of manage_investments calls update_investment
update_investment_fields(rows, investment_id, initial_investment_amount, quantity, portfolio_id, asset_category_id, asset_id) ==
    {IF i.investment_id = investment_id
        THEN [i EXCEPT !.initial_investment_amount = initial_investment_amount,
                       !.quantity = quantity,
                       !.portfolio_id = portfolio_id,
                       !.asset_category_id = asset_category_id,
                       !.asset_id = asset_id]
        ELSE i : i \in rows}

\* INSERT INTO transactions (...) VALUES (...)
add_transaction(rows, user_id, account_id, investment_id, asset_id, transaction_type, amount, quantity, unit_price_at_transaction) ==
    rows \cup {[transaction_id |-> lastrowid(rows, "transaction_id"),
                user_id |-> user_id,
                account_id |-> account_id,
                investment_id |-> investment_id,
                asset_id |-> asset_id,
                transaction_type |-> transaction_type,
                amount |-> amount,
                quantity |-> quantity,
                unit_price_at_transaction |-> unit_price_at_transaction]}

\* SQL NULL, which SUM answers over no rows (the amounts summed are not negative)
NULL == 0 - 1

\* a value that leaves the price out; current_value is compared with it
value_at_unit_price_one(quantity, unit_price) == quantity

\* (i.quantity * a.unit_price) AS current_value
current_value(quantity, unit_price) == quantity * unit_price

\* the rows get_investments_by_user returns, with the columns joined from assets:
\* a.unit_price AS current_unit_price and the computed current_value
investments_with_value(user_id) ==
    {[investment_id |-> p[1].investment_id,
      user_id |-> p[1].user_id,
      portfolio_id |-> p[1].portfolio_id,
      asset_category_id |-> p[1].asset_category_id,
      asset_id |-> p[1].asset_id,
      initial_investment_amount |-> p[1].initial_investment_amount,
      quantity |-> p[1].quantity,
      current_unit_price |-> p[2].unit_price,
      current_value |-> current_value(p[1].quantity, p[2].unit_price)] :
        p \in {q \in get_investments_by_user(user_id) \X assets :
                    q[1].asset_id = q[2].asset_id}}

\* SELECT SUM(current_balance) AS total_balance FROM accounts WHERE user_id = %s
total_balance(user_id) ==
    LET mine == {a \in accounts : a.user_id = user_id}
    IN  IF mine = {} THEN NULL ELSE SumOf(mine, "current_balance")

\* SELECT SUM(i.quantity * a.unit_price) AS total_investment_value
\* FROM investments i JOIN assets a ON i.asset_id = a.asset_id WHERE i.user_id = %s
total_investment_value(user_id) ==
    LET mine == {[investment_id |-> p[1].investment_id,
                  value |-> p[1].quantity * p[2].unit_price] :
                    p \in {q \in investments \X assets :
                            q[1].asset_id = q[2].asset_id /\ q[1].user_id = user_id}}
    IN  IF mine = {} THEN NULL ELSE SumOf(mine, "value")

\* the fetched sum as it is, NULL included; or_zero is compared with it
as_fetched(total) == total

\* get_portfolio_summary line 433 and 445: ... if ... is not None else Decimal('0.00')
or_zero(total) == IF total = NULL THEN 0 ELSE total

\* a total that leaves the investments out; total_portfolio_value is compared with it
accounts_only(total_account_balance, investment_value) == total_account_balance

\* summary['total_portfolio_value'] = total_account_balance + total_investment_value
total_portfolio_value(total_account_balance, investment_value) ==
    total_account_balance + investment_value

\* DELETE FROM accounts WHERE account_id = %s
delete_account(rows, account_id) == {a \in rows : a.account_id # account_id}

\* DELETE FROM investments WHERE investment_id = %s
delete_investment(rows, investment_id) == {i \in rows : i.investment_id # investment_id}

\* DELETE FROM portfolios WHERE portfolio_id = %s
delete_portfolio(rows, portfolio_id) == {q \in rows : q.portfolio_id # portfolio_id}

\* DELETE FROM transactions WHERE transaction_id = %s
delete_transaction(rows, transaction_id) == {x \in rows : x.transaction_id # transaction_id}

\* a foreign key that lets the parent row go; restricted is compared with it
unrestricted(children, column, id) == FALSE

\* a foreign key ON DELETE RESTRICT: the parent row cannot go while a row of the
\* child table refers to it
restricted(children, column, id) == \E c \in children : c[column] = id

\* the rows that carry the user_id
OwnedRows(rows, user_id) == {r \in rows : r.user_id = user_id}

\* a DELETE that finds no row; delete_where_user_id is compared with it
delete_nothing(rows, user_id) == rows

\* delete_user_and_all_data line 105-122: DELETE FROM <table> WHERE user_id = %s
delete_where_user_id(rows, user_id) == {r \in rows : r.user_id # user_id}

\* cursor.rowcount > 0 of an UPDATE: MySQL counts the rows the statement changed
RowsAffected(before, after) == before # after

\* ------------------------------------------------------------- app.py
\* a cost that ignores the quantity; total_cost is compared with it
cost_of_one_unit(quantity_to_buy, unit_price) == unit_price

\* total_cost = Decimal(str(quantity_to_buy)) * selected_asset_unit_price
total_cost(quantity_to_buy, unit_price) == quantity_to_buy * unit_price

\* the checks without the comparison of cost and balance; validate is compared
\* with them
validate_without_funds_check(account_id, asset_id, quantity_to_buy, cost, current_account_balance) ==
    IF account_id = None THEN "select_account"
    ELSE IF asset_id = None THEN "select_asset"
    ELSE IF quantity_to_buy <= 0 THEN "quantity_not_positive"
    ELSE ""

\* the checks of buy_assets after "if submitted:", in the code's order;
\* "" when they all pass
validate(account_id, asset_id, quantity_to_buy, cost, current_account_balance) ==
    IF account_id = None THEN "select_account"
    ELSE IF asset_id = None THEN "select_asset"
    ELSE IF quantity_to_buy <= 0 THEN "quantity_not_positive"
    ELSE IF cost > current_account_balance THEN "insufficient_balance"
    ELSE ""

\* the handler's locals before a run
NoRun ==
    [account_id |-> None, asset_id |-> None, quantity_to_buy |-> 0,
     current_account_balance |-> 0, unit_price |-> 0,
     portfolio_id |-> None, asset_category_id |-> None,
     existing_investment |-> None, existing_quantity |-> 0,
     required |-> 0, available |-> 0]

Idle(user_id) ==
    [user_id |-> user_id, pc |-> "idle", result |-> "none", message |-> "", run |-> NoRun]

Snapshot == [accounts |-> accounts, investments |-> investments,
             transactions |-> transactions]

NoSnapshot == [accounts |-> {}, investments |-> {}, transactions |-> {}]

\* the observer notes the stored tables as a run of session s is submitted,
\* and drops the note when the run is over
Observe(s) == pre' = [pre EXCEPT ![s] = Snapshot]
Forget(s) == pre' = [pre EXCEPT ![s] = NoSnapshot]

\* the run of session s ends: back to the page, with its outcome shown
Finish(s, result, message) ==
    [session_state EXCEPT ![s] =
        [@ EXCEPT !.pc = "done", !.result = result, !.message = message]]

Goto(s, pc) == [session_state EXCEPT ![s] = [@ EXCEPT !.pc = pc]]

\* "Confirm Purchase" is clicked with the form's values; the script reruns and
\* load_data reads the user's accounts (line 46); the selected name is looked up
\* in the fresh accounts_df (a name that is gone falls back to "None")
buy_load_accounts(s, account, asset, qty, outcome) ==
    /\ UNCHANGED others
    /\ session_state[s].pc = "idle"
    /\ Cardinality(transactions) < MaxTxn
    /\ UNCHANGED tables
    /\ LET me == session_state[s]
           mine == get_accounts_by_user(me.user_id)
           row == {a \in mine : a.account_id = account}
       IN  IF outcome = "ok" /\ mine # {}
           THEN session_state' = [session_state EXCEPT ![s] =
                    [@ EXCEPT !.pc = "load_portfolios", !.result = "none", !.message = "",
                              !.run = [NoRun EXCEPT
                                !.account_id = IF row = {} THEN None ELSE account,
                                !.asset_id = asset,
                                !.quantity_to_buy = qty,
                                !.current_account_balance =
                                    IF row = {} THEN 0
                                    ELSE (CHOOSE a \in row : TRUE).current_balance]]]
           \* no connection: accounts_df is empty and buy_assets returns at line 357;
           \* a failed query ends the script run
           ELSE session_state' = Finish(s, "none", "")

\* load_data line 47: portfolios_df; the selectbox of the new holding shows its
\* first row (SELECT without ORDER BY: any row may come first)
buy_load_portfolios(s, outcome) ==
    /\ UNCHANGED others
    /\ session_state[s].pc = "load_portfolios"
    /\ UNCHANGED <<tables, pre>>
    /\ LET mine == get_portfolios_by_user(session_state[s].user_id)
       IN  CASE outcome = "ok" /\ mine # {} ->
                 \E p \in mine :
                    session_state' = [session_state EXCEPT ![s] =
                        [@ EXCEPT !.pc = "load_asset_types",
                                  !.run.portfolio_id = p.portfolio_id]]
             [] outcome = "error" ->
                 session_state' = Finish(s, "none", "")
             [] OTHER ->
                 session_state' = Goto(s, "load_asset_types")

\* load_data line 48: asset_types_df, ORDER BY type_name; the selectbox shows the first
buy_load_asset_types(s, outcome) ==
    /\ UNCHANGED others
    /\ session_state[s].pc = "load_asset_types"
    /\ UNCHANGED <<tables, pre>>
    /\ CASE outcome = "ok" /\ asset_types # {} ->
             session_state' = [session_state EXCEPT ![s] =
                [@ EXCEPT !.pc = "load_assets",
                          !.run.asset_category_id = Min(asset_types)]]
         [] outcome = "error" ->
             session_state' = Finish(s, "none", "")
         [] OTHER ->
             session_state' = Goto(s, "load_assets")

\* load_data line 49: assets_df; then buy_assets runs up to the checks of lines 404-416
buy_load_assets(s, outcome) ==
    /\ UNCHANGED others
    /\ session_state[s].pc = "load_assets"
    /\ UNCHANGED <<tables, pre>>
    /\ LET me == session_state[s]
           row == {a \in assets : a.asset_id = me.run.asset_id}
       IN  IF outcome = "ok" /\ row # {}
           THEN LET price == (CHOOSE a \in row : TRUE).unit_price
                    cost == total_cost(me.run.quantity_to_buy, price)
                    verdict == validate(me.run.account_id, me.run.asset_id,
                                        me.run.quantity_to_buy, cost,
                                        me.run.current_account_balance)
                    loaded == [me EXCEPT !.run.unit_price = price]
                IN  session_state' = [session_state EXCEPT ![s] =
                        IF verdict = ""
                        THEN [loaded EXCEPT !.pc = "debit"]
                        ELSE [loaded EXCEPT !.pc = "done", !.result = "rejected",
                                !.message = verdict,
                                !.run.required =
                                    IF verdict = "insufficient_balance" THEN cost ELSE 0,
                                !.run.available =
                                    IF verdict = "insufficient_balance"
                                    THEN me.run.current_account_balance ELSE 0]]
           ELSE session_state' = Finish(s, "none", "")

\* a debit step that goes on to the holding whatever the store answered;
\* buy_debit is compared with it
buy_debit_unchecked(s, outcome) ==
    /\ UNCHANGED others
    /\ session_state[s].pc = "debit"
    /\ UNCHANGED <<portfolios, asset_types, assets, investments, transactions, pre>>
    /\ LET run == session_state[s].run
           new_account_balance ==
               run.current_account_balance - total_cost(run.quantity_to_buy, run.unit_price)
       IN  accounts' = IF outcome = "ok"
                       THEN update_account_balance(accounts, run.account_id, new_account_balance)
                       ELSE accounts
    /\ session_state' = Goto(s, "get_investments")

\* line 420-422: 1. Deduct total from account.  The new balance is computed from
\* the balance read by load_data, and written by a statement of its own.
buy_debit(s, outcome) ==
    /\ UNCHANGED others
    /\ session_state[s].pc = "debit"
    /\ UNCHANGED <<portfolios, asset_types, assets, investments, transactions>>
    /\ LET run == session_state[s].run
           new_account_balance ==
               run.current_account_balance - total_cost(run.quantity_to_buy, run.unit_price)
           updated == update_account_balance(accounts, run.account_id, new_account_balance)
       IN  IF outcome = "ok"
           THEN /\ accounts' = updated
                /\ UNCHANGED pre
                /\ session_state' =
                     IF RowsAffected(accounts, updated)
                     THEN Goto(s, "get_investments")
                     ELSE Finish(s, "aborted", "Failed to update account balance.")
           \* execute_query raised (rolled back) or returned None (no connection)
           ELSE /\ UNCHANGED <<accounts, pre>>
                /\ session_state' = Finish(s, "aborted",
                        IF outcome = "error" THEN "database error"
                        ELSE "Failed to update account balance.")

\* line 426-427: the user's holdings are read and the first one of the bought
\* asset is taken (SELECT without ORDER BY: any matching row may come first)
buy_get_investments(s, outcome) ==
    /\ UNCHANGED others
    /\ session_state[s].pc = "get_investments"
    /\ UNCHANGED <<tables, pre>>
    /\ LET me == session_state[s]
           user_investments == get_investments_by_user(me.user_id)
           matching == {inv \in user_investments : inv.asset_id = me.run.asset_id}
       IN  CASE outcome = "ok" /\ matching # {} ->
                 \E inv \in matching :
                    session_state' = [session_state EXCEPT ![s] =
                        [@ EXCEPT !.pc = "upsert",
                                  !.run.existing_investment = inv.investment_id,
                                  !.run.existing_quantity = inv.quantity]]
             [] outcome = "ok" /\ matching = {} ->
                 session_state' = Goto(s, "upsert")
             [] outcome = "error" ->
                 session_state' = Finish(s, "aborted", "database error")
             \* no connection: None is iterated, a TypeError caught at line 494
             [] OTHER ->
                 session_state' = Finish(s, "aborted", "not iterable")

\* line 429-434: the holding exists; its quantity becomes the quantity read at
\* line 426 plus the quantity bought
buy_update_investment(s, outcome) ==
    /\ UNCHANGED others
    /\ session_state[s].pc = "upsert"
    /\ session_state[s].run.existing_investment # None
    /\ UNCHANGED <<accounts, portfolios, asset_types, assets, transactions>>
    /\ LET run == session_state[s].run
           new_quantity == run.existing_quantity + run.quantity_to_buy
           updated == update_investment(investments, run.existing_investment, new_quantity)
       IN  IF outcome = "ok"
           THEN /\ investments' = updated
                /\ UNCHANGED pre
                /\ session_state' =
                     IF RowsAffected(investments, updated)
                     THEN Goto(s, "log")
                     ELSE Finish(s, "aborted", "Failed to update existing investment quantity.")
           ELSE /\ UNCHANGED <<investments, pre>>
                /\ session_state' = Finish(s, "aborted",
                        IF outcome = "error" THEN "database error"
                        ELSE "Failed to update existing investment quantity.")

\* line 435-472: no holding yet; the new one goes to the portfolio and category
\* the two selectboxes show, and without either the handler returns at line 472
buy_add_investment(s, outcome) ==
    /\ UNCHANGED others
    /\ session_state[s].pc = "upsert"
    /\ session_state[s].run.existing_investment = None
    /\ UNCHANGED <<accounts, portfolios, asset_types, assets, transactions>>
    /\ LET me == session_state[s]
           run == me.run
           cost == total_cost(run.quantity_to_buy, run.unit_price)
           \* the foreign keys of investments: the portfolio row must still exist
           fk == \E p \in portfolios : p.portfolio_id = run.portfolio_id
       IN  CASE run.portfolio_id = None \/ run.asset_category_id = None ->
                 /\ outcome = "ok"
                 /\ UNCHANGED <<investments, pre>>
                 /\ session_state' = Finish(s, "aborted",
                        "Please select a portfolio and asset category")
             [] outcome = "ok" /\ fk ->
                 /\ investments' = add_investment(investments, me.user_id, run.portfolio_id,
                        run.asset_category_id, run.asset_id, cost, run.quantity_to_buy)
                 /\ UNCHANGED pre
                 /\ session_state' = Goto(s, "log")
             [] outcome = "noconn" ->
                 /\ UNCHANGED <<investments, pre>>
                 /\ session_state' = Finish(s, "aborted", "Failed to add new investment.")
             [] OTHER ->
                 /\ UNCHANGED <<investments, pre>>
                 /\ session_state' = Finish(s, "aborted", "database error")

\* line 474-491: 3. Log transaction, then refresh_data and rerun
buy_add_transaction(s, outcome) ==
    /\ UNCHANGED others
    /\ session_state[s].pc = "log"
    /\ UNCHANGED <<accounts, portfolios, asset_types, assets, investments>>
    /\ LET me == session_state[s]
           run == me.run
       IN  IF outcome = "ok"
           THEN /\ transactions' = add_transaction(transactions, me.user_id,
                        run.account_id, None, run.asset_id, "Buy",
                        total_cost(run.quantity_to_buy, run.unit_price),
                        run.quantity_to_buy, run.unit_price)
                /\ UNCHANGED pre
                /\ session_state' = Finish(s, "committed", "")
           ELSE /\ UNCHANGED <<transactions, pre>>
                /\ session_state' = Finish(s, "aborted",
                        IF outcome = "error" THEN "database error"
                        ELSE "Failed to log transaction.")

\* a price update that also rewrites the price noted in the asset's logged
\* transactions; admin_update_asset_price is compared with it
admin_reprice_transactions(asset_id, new_price) ==
    /\ UNCHANGED others
    /\ new_price > 0
    /\ assets' = {IF a.asset_id = asset_id
                    THEN [a EXCEPT !.unit_price = new_price] ELSE a : a \in assets}
    /\ assets' # assets
    /\ transactions' = {IF t.asset_id = asset_id
                          THEN [t EXCEPT !.unit_price_at_transaction = new_price]
                          ELSE t : t \in transactions}
    /\ UNCHANGED <<accounts, portfolios, asset_types, investments, session_state, pre>>

\* show_admin_dashboard line 286-298: the admin sets an asset's unit price
\* (number_input min_value = 0.01, and new_price <= 0 is refused)
admin_update_asset_price(asset_id, new_price) ==
    /\ UNCHANGED others
    /\ new_price > 0
    /\ assets' = update_asset_price(assets, asset_id, new_price)
    /\ assets' # assets
    /\ UNCHANGED pre
    /\ UNCHANGED <<accounts, portfolios, asset_types, investments, transactions,
                   session_state>>

\* a delete that also gives the amount of the record back to its account;
\* manage_transactions_delete is compared with it
manage_transactions_delete_and_refund(s, transaction_id) ==
    /\ UNCHANGED others
    /\ session_state[s].pc = "idle"
    /\ \E t \in transactions :
            /\ t.transaction_id = transaction_id
            /\ t.user_id = session_state[s].user_id
            /\ accounts' = {IF a.account_id = t.account_id
                            THEN [a EXCEPT !.current_balance = @ + t.amount]
                            ELSE a : a \in accounts}
    /\ transactions' = {t \in transactions : t.transaction_id # transaction_id}
    /\ UNCHANGED pre
    /\ UNCHANGED <<portfolios, asset_types, assets, investments, session_state>>

\* manage_transactions line 1000-1009: "Delete Selected Transaction"
manage_transactions_delete(s, transaction_id) ==
    /\ UNCHANGED others
    /\ session_state[s].pc = "idle"
    /\ \E t \in transactions :
            /\ t.transaction_id = transaction_id
            /\ t.user_id = session_state[s].user_id
    /\ transactions' = {t \in transactions : t.transaction_id # transaction_id}
    /\ UNCHANGED pre
    /\ UNCHANGED <<accounts, portfolios, asset_types, assets, investments, session_state>>

\* the script run ends (st.rerun() at line 491, or the end of the script after
\* st.error / return): the handler's locals are gone and the page is shown again
rerun(s) ==
    /\ UNCHANGED others
    /\ session_state[s].pc = "done"
    /\ session_state' = [session_state EXCEPT ![s] = Idle(@.user_id)]
    /\ UNCHANGED tables

\* a session logged in as a regular user whose page is not followed: the
\* specifications of single pages start from it and leave it as it is
Navigating == [logged_in |-> TRUE, user_role |-> "user", current_page |-> "any",
               routed |-> "any"]

\* ------------------------------------------------ load_data, regular user
\* load_data line 32-42: every frame empty and the summary at Decimal('0.00'),
\* before anything is read.  The observer's notes: which rows each read saw,
\* and whether the store answered it.
NoDashboard ==
    [pc |-> "idle",
     investments_df |-> {},
     portfolio_summary |-> [total_account_balance |-> 0,
                            total_investment_value |-> 0,
                            total_portfolio_value |-> 0],
     total_account_balance |-> 0,
     df_answered |-> FALSE,
     df_of |-> [investments |-> {}, assets |-> {}],
     summary_answered |-> FALSE,
     summary_of |-> [accounts |-> {}, investments |-> {}, assets |-> {}]]

\* a load that also clears the holdings of quantity 0; load_investments_df is
\* compared with it
load_and_tidy_investments_df(s, outcome) ==
    /\ dashboard[s].pc \in {"idle", "refresh"}
    /\ investments' = {i \in investments : i.quantity > 0}
    /\ UNCHANGED <<accounts, portfolios, asset_types, assets, transactions,
                   session_state, pre, users, navigation>>
    /\ dashboard' = [dashboard EXCEPT ![s] =
            [NoDashboard EXCEPT
                !.pc = "summary_accounts",
                !.investments_df = investments_with_value(session_state[s].user_id),
                !.df_answered = TRUE,
                !.df_of = [investments |-> investments, assets |-> assets]]]

\* load_data line 56: investments_df = get_investments_df(user_id), at the start
\* of a script run or in refresh_data after a change
load_investments_df(s, outcome) ==
    /\ dashboard[s].pc \in {"idle", "refresh"}
    /\ UNCHANGED <<tables, session_state, pre, users, navigation>>
    /\ dashboard' = [dashboard EXCEPT ![s] =
            CASE outcome = "ok" ->
                    [NoDashboard EXCEPT
                        !.pc = "summary_accounts",
                        !.investments_df = investments_with_value(session_state[s].user_id),
                        !.df_answered = TRUE,
                        !.df_of = [investments |-> investments, assets |-> assets]]
              \* no connection: get_investments_df returns an empty frame
              [] outcome = "noconn" -> [NoDashboard EXCEPT !.pc = "summary_accounts"]
              \* the query raised: the script run ends with what line 32-42 set
              [] OTHER -> NoDashboard]

\* get_portfolio_summary line 430-433: the first query, total_account_balance
load_summary_accounts(s, outcome) ==
    /\ dashboard[s].pc = "summary_accounts"
    /\ UNCHANGED <<tables, session_state, pre, users, navigation>>
    /\ dashboard' = [dashboard EXCEPT ![s] =
            CASE outcome = "ok" ->
                    [@ EXCEPT !.pc = "summary_investments",
                              !.total_account_balance =
                                    or_zero(total_balance(session_state[s].user_id)),
                              !.summary_answered = TRUE,
                              !.summary_of.accounts = accounts]
              [] outcome = "noconn" ->
                    [@ EXCEPT !.pc = "summary_investments", !.total_account_balance = 0]
              [] OTHER -> [@ EXCEPT !.pc = "idle"]]

\* get_portfolio_summary line 437-451: the second query, total_investment_value,
\* then the total; load_data line 58 keeps the summary
load_summary_investments(s, outcome) ==
    /\ dashboard[s].pc = "summary_investments"
    /\ UNCHANGED <<tables, session_state, pre, users, navigation>>
    /\ LET me == dashboard[s]
           fetched == IF outcome = "ok"
                      THEN or_zero(total_investment_value(session_state[s].user_id))
                      ELSE 0
       IN  dashboard' = [dashboard EXCEPT ![s] =
                IF outcome = "error"
                THEN [me EXCEPT !.pc = "idle", !.summary_answered = FALSE]
                ELSE [me EXCEPT
                        !.pc = "idle",
                        !.portfolio_summary =
                            [total_account_balance |-> me.total_account_balance,
                             total_investment_value |-> fetched,
                             total_portfolio_value |->
                                total_portfolio_value(me.total_account_balance, fetched)],
                        !.summary_answered = me.summary_answered /\ outcome = "ok",
                        !.summary_of.investments =
                            IF outcome = "ok" THEN investments ELSE {},
                        !.summary_of.assets = IF outcome = "ok" THEN assets ELSE {}]]

\* after a change that succeeded: refresh_data() and st.rerun() load everything anew
Refresh(s) == [dashboard EXCEPT ![s] = [@ EXCEPT !.pc = "refresh"]]

\* manage_accounts line 677-697: "Delete Account"; the account is one of the
\* session's accounts_df
manage_accounts_delete(s, account_id, outcome) ==
    /\ session_state[s].pc = "idle"
    /\ dashboard[s].pc \in {"idle", "refresh"}
    /\ \E a \in get_accounts_by_user(session_state[s].user_id) : a.account_id = account_id
    /\ UNCHANGED <<portfolios, asset_types, assets, investments, transactions,
                   session_state, pre, users, navigation>>
    /\ IF outcome = "ok" /\ ~restricted(transactions, "account_id", account_id)
       THEN /\ accounts' = delete_account(accounts, account_id)
            /\ dashboard' = Refresh(s)
       \* no connection, or the statement raised: st.error, nothing stored
       ELSE UNCHANGED <<accounts, dashboard>>

\* manage_investments line 872-892: "Delete Investment"; the investment is one
\* of the session's investments_df
manage_investments_delete(s, investment_id, outcome) ==
    /\ session_state[s].pc = "idle"
    /\ dashboard[s].pc \in {"idle", "refresh"}
    /\ \E i \in get_investments_by_user(session_state[s].user_id) :
            i.investment_id = investment_id
    /\ UNCHANGED <<accounts, portfolios, asset_types, assets, transactions,
                   session_state, pre, users, navigation>>
    /\ IF outcome = "ok" /\ ~restricted(transactions, "investment_id", investment_id)
       THEN /\ investments' = delete_investment(investments, investment_id)
            /\ dashboard' = Refresh(s)
       ELSE UNCHANGED <<investments, dashboard>>

\* ------------------------------------------- the other pages that write
\* st.number_input("Quantity", value=..., format="%.4f"): no min_value, the
\* number typed is the number passed on
quantity_input(value) == value

\* manage_investments line 724-787: "Add New Investment (Manually)"; portfolio,
\* category and asset are chosen from the frames load_data filled
manage_investments_add(s, portfolio_id, asset_category_id, asset_id, quantity, outcome) ==
    /\ session_state[s].pc = "idle"
    /\ dashboard[s].pc \in {"idle", "refresh"}
    /\ \E q \in get_portfolios_by_user(session_state[s].user_id) :
            q.portfolio_id = portfolio_id
    /\ asset_category_id \in asset_types
    /\ \E a \in assets : a.asset_id = asset_id
    /\ UNCHANGED <<accounts, portfolios, asset_types, assets, transactions,
                   session_state, pre, users, navigation>>
    /\ IF outcome = "ok"
       THEN /\ investments' = add_investment(investments, session_state[s].user_id,
                    portfolio_id, asset_category_id, asset_id, 0, quantity_input(quantity))
            /\ dashboard' = Refresh(s)
       ELSE UNCHANGED <<investments, dashboard>>

\* manage_investments line 790-870: "Update Investment"; the form starts from the
\* row's values and every column is written
manage_investments_update(s, investment_id, portfolio_id, quantity, outcome) ==
    /\ session_state[s].pc = "idle"
    /\ dashboard[s].pc \in {"idle", "refresh"}
    /\ \E q \in get_portfolios_by_user(session_state[s].user_id) :
            q.portfolio_id = portfolio_id
    /\ UNCHANGED <<accounts, portfolios, asset_types, assets, transactions,
                   session_state, pre, users, navigation>>
    /\ \E i \in get_investments_by_user(session_state[s].user_id) :
            /\ i.investment_id = investment_id
            /\ LET updated == update_investment_fields(investments, investment_id,
                                i.initial_investment_amount, quantity_input(quantity),
                                portfolio_id, i.asset_category_id, i.asset_id)
               IN  IF outcome = "ok" /\ RowsAffected(investments, updated)
                   THEN /\ investments' = updated
                        /\ dashboard' = Refresh(s)
                   ELSE UNCHANGED <<investments, dashboard>>

\* a manual entry that also moves the amount: a Deposit raises the balance of
\* the linked account, any other type lowers it; manage_transactions_add is
\* compared with it
manage_transactions_add_and_apply(s, transaction_type, amount, account_id, investment_id, outcome) ==
    /\ session_state[s].pc = "idle"
    /\ dashboard[s].pc \in {"idle", "refresh"}
    /\ UNCHANGED <<portfolios, asset_types, assets, investments, session_state, pre, users, navigation>>
    /\ transactions' = add_transaction(transactions, session_state[s].user_id,
                account_id, investment_id, None, transaction_type, amount, 1, 1)
    /\ accounts' = {IF a.account_id = account_id
                    THEN [a EXCEPT !.current_balance =
                            IF transaction_type = "Deposit" THEN @ + amount ELSE @ - amount]
                    ELSE a : a \in accounts}
    /\ dashboard' = Refresh(s)

\* manage_transactions line 917-981: "Add New Transaction (Manual Entry)"; the
\* account and the investment linked are "None" or rows of the session's frames
manage_transactions_add(s, transaction_type, amount, account_id, investment_id, outcome) ==
    /\ session_state[s].pc = "idle"
    /\ dashboard[s].pc \in {"idle", "refresh"}
    /\ \/ account_id = None
       \/ \E a \in get_accounts_by_user(session_state[s].user_id) : a.account_id = account_id
    /\ \/ investment_id = None
       \/ \E i \in get_investments_by_user(session_state[s].user_id) :
                i.investment_id = investment_id
    /\ UNCHANGED <<accounts, portfolios, asset_types, assets, investments,
                   session_state, pre, users, navigation>>
    /\ IF outcome = "ok"
       THEN /\ transactions' = add_transaction(transactions, session_state[s].user_id,
                    account_id, investment_id, None, transaction_type, amount, 1, 1)
            /\ dashboard' = Refresh(s)
       \* the statement raised: st.error, nothing stored
       ELSE UNCHANGED <<transactions, dashboard>>

\* manage_portfolios line 580-609: "Delete Portfolio"; the statement fails while
\* an investment refers to the portfolio, and the page reports the error
manage_portfolios_delete(s, portfolio_id, outcome) ==
    /\ session_state[s].pc = "idle"
    /\ dashboard[s].pc \in {"idle", "refresh"}
    /\ \E q \in get_portfolios_by_user(session_state[s].user_id) :
            q.portfolio_id = portfolio_id
    /\ UNCHANGED <<accounts, asset_types, assets, investments, transactions, pre, users, navigation>>
    /\ IF outcome = "ok" /\ ~restricted(investments, "portfolio_id", portfolio_id)
       THEN /\ portfolios' = delete_portfolio(portfolios, portfolio_id)
            /\ dashboard' = Refresh(s)
            /\ session_state' = [session_state EXCEPT ![s] =
                    [@ EXCEPT !.result = "none", !.message = ""]]
       \* line 606-607: st.error with the text of the error the statement raised
       ELSE /\ UNCHANGED <<portfolios, dashboard>>
            /\ session_state' = [session_state EXCEPT ![s] =
                    [@ EXCEPT !.result = "none",
                              !.message =
                                IF outcome = "ok"
                                THEN "Failed to delete portfolio: a foreign key constraint fails"
                                ELSE "Failed to delete portfolio: database error"]]

\* show_admin_dashboard line 302-338 with delete_user_and_all_data: one
\* connection and one transaction; the five DELETEs are committed together or,
\* when one of them raises, rolled back together
admin_delete_user(user_id, outcome) ==
    /\ user_id \in users
    /\ UNCHANGED <<asset_types, assets, session_state, pre, dashboard, navigation>>
    /\ LET kept_transactions == delete_where_user_id(transactions, user_id)
           kept_investments == delete_where_user_id(investments, user_id)
           kept_accounts == delete_where_user_id(accounts, user_id)
           kept_portfolios == delete_where_user_id(portfolios, user_id)
           \* a row of another user that refers to a row being deleted
           raises ==
               \/ \E i \in investments \ kept_investments :
                        restricted(kept_transactions, "investment_id", i.investment_id)
               \/ \E a \in accounts \ kept_accounts :
                        restricted(kept_transactions, "account_id", a.account_id)
               \/ \E q \in portfolios \ kept_portfolios :
                        restricted(kept_investments, "portfolio_id", q.portfolio_id)
       IN  IF outcome = "ok" /\ ~raises
           THEN /\ transactions' = kept_transactions
                /\ investments' = kept_investments
                /\ accounts' = kept_accounts
                /\ portfolios' = kept_portfolios
                /\ users' = users \ {user_id}
           ELSE UNCHANGED <<transactions, investments, accounts, portfolios, users>>

\* ------------------------------------------- login, navigation, routing
\* the admins: ADMIN is the one the script creates when it is missing (line
\* 1026-1032), the other one was put into the store beforehand
ADMIN == 3
Admins == {ADMIN, 4}

\* column role of a users row: 'user' from Register (line 108), 'admin' for the
\* admins; no statement of src/ updates it
role_of(user_id) == IF user_id \in Admins THEN "admin" ELSE "user"

Passwords == 1..2

\* hashlib.sha256(password.encode()).hexdigest(), in small: a function of the
\* password that is not the identity and gives different passwords different hashes
hash_password(password) == (password * 3 + 2) % 7

\* line 26-28
check_password(hashed_password, user_password) ==
    hashed_password = hash_password(user_password)

\* the row of table users with the id: the username is written as the id
\* (usernames are unique), the password column holds the hash of the password
\* the user registered with
users_row(user_id) ==
    [user_id |-> user_id, username |-> user_id,
     password |-> hash_password(IF user_id % 2 = 0 THEN 1 ELSE 2),
     role |-> role_of(user_id)]

\* SELECT * FROM users WHERE username = %s
get_user_by_username(rows, username) ==
    {users_row(u) : u \in {v \in rows : users_row(v).username = username}}

\* line 1026-1032, in every script run: the admin user is added when missing
ensure_admin(rows) == IF get_user_by_username(rows, ADMIN) = {} THEN rows \cup {ADMIN} ELSE rows

\* line 1042-1058
navigation_options(user_role) ==
    IF user_role = "admin"
    THEN <<"Admin Dashboard", "Manage Investments", "Manage Transactions">>
    ELSE <<"Dashboard", "Buy Assets", "Manage Portfolios", "Manage Accounts",
           "Manage Investments", "Manage Transactions">>

Options(user_role) ==
    {navigation_options(user_role)[n] : n \in DOMAIN navigation_options(user_role)}

Pages == Options("admin") \cup Options("user")

\* a session that is not logged in: line 1017-1024, no current_page, no radio
LoggedOut ==
    [logged_in |-> FALSE, user_role |-> "none", current_page |-> "none",
     radio |-> "none", routed |-> "none", username_input |-> None, password_input |-> None]

\* a logout that leaves current_page in the session; pop_current_page is
\* compared with it
keep_current_page(page) == page

\* line 1085: st.session_state.pop('current_page', None)
pop_current_page(page) == "none"

\* One run of the script for a logged-in session, line 1040-1117. click is the
\* option picked on the radio in the browser, "none" when the run has another
\* cause.  The radio keeps its value between runs (key main_navigation_radio);
\* index applies when it has none, or one that is not among the options.
script_run(nav, click) ==
    LET options == Options(nav.user_role)
        first == navigation_options(nav.user_role)[1]
        \* line 1060-1061
        current_page == IF nav.current_page = "none" THEN first ELSE nav.current_page
    IN  IF current_page \notin options
        \* line 1064-1066: reset and st.rerun(), the radio is not drawn
        THEN [nav EXCEPT !.current_page = first, !.radio = "none", !.routed = "none"]
        ELSE LET page == IF click # "none" THEN click
                         ELSE IF nav.radio \in options THEN nav.radio
                         ELSE current_page
             IN  IF page # current_page
                 \* line 1075-1077: the page is noted and st.rerun()
                 THEN [nav EXCEPT !.current_page = page, !.radio = page, !.routed = "none"]
                 \* line 1092-1117: load_data and the page's function
                 ELSE [nav EXCEPT !.current_page = current_page, !.radio = page,
                                  !.routed = IF nav.user_role = "admin"
                                             THEN IF page \in Options("admin")
                                                  THEN page ELSE "none"
                                             ELSE IF page \in Options("user")
                                                  THEN page ELSE "none"]

\* the page function the latest script run of session s called
Routed(s, page) == navigation[s].logged_in /\ navigation[s].routed = page

\* show_auth_section line 74-93: "Login" is clicked with a username and a password
login(s, username, password, outcome) ==
    /\ ~navigation[s].logged_in
    /\ session_state[s].pc = "idle"
    /\ UNCHANGED <<tables, pre>>
    /\ users' = ensure_admin(users)
    /\ LET user_data == get_user_by_username(users', username)
           typed == [navigation[s] EXCEPT !.username_input = username,
                                          !.password_input = password]
       IN  IF outcome = "ok" /\ user_data # {}
                /\ \A user \in user_data : check_password(user.password, password)
           THEN \E user \in user_data :
                    /\ navigation' = [navigation EXCEPT ![s] =
                            [typed EXCEPT !.logged_in = TRUE, !.user_role = user.role]]
                    /\ session_state' = [session_state EXCEPT ![s] = Idle(user.user_id)]
                    \* refresh_data, then st.rerun()
                    /\ dashboard' = [dashboard EXCEPT ![s] = [NoDashboard EXCEPT !.pc = "refresh"]]
           \* "Username not found." / "Incorrect password." / the query raised
           ELSE UNCHANGED <<navigation, session_state, dashboard>>

\* a script run of a logged-in session: after st.rerun(), or with a click on the radio
main(s, click) ==
    /\ navigation[s].logged_in
    /\ session_state[s].pc = "idle"
    /\ click \in Options(navigation[s].user_role) \cup {"none"}
    \* the radio can be clicked where the run before has drawn a page; after
    \* st.rerun() the script runs again at once
    /\ click # "none" => navigation[s].routed # "none"
    /\ UNCHANGED <<tables, pre>>
    /\ users' = ensure_admin(users)
    /\ navigation' = [navigation EXCEPT ![s] = script_run(@, click)]
    \* what the run before had written to the page is gone; load_data fills the frames
    /\ session_state' = [session_state EXCEPT ![s] = Idle(@.user_id)]
    /\ dashboard' = [dashboard EXCEPT ![s] = NoDashboard]

\* line 1079-1088: "Logout" is clicked in a run that got as far as the button;
\* the frames and current_page are dropped, and in the run that follows the
\* radio is not drawn, so its value is dropped too
logout(s) ==
    /\ navigation[s].logged_in
    /\ session_state[s].pc = "idle"
    /\ script_run(navigation[s], "none").routed # "none"
    /\ UNCHANGED <<tables, pre>>
    /\ users' = ensure_admin(users)
    /\ navigation' = [navigation EXCEPT ![s] =
            [LoggedOut EXCEPT !.current_page = pop_current_page(navigation[s].current_page)]]
    /\ session_state' = [session_state EXCEPT ![s] = Idle(None)]
    /\ dashboard' = [dashboard EXCEPT ![s] = NoDashboard]

\* ------------------------------------------------- the admin dashboard
\* a check that lets every price through; price_refused is compared with it
price_never_refused(new_price) == FALSE

\* line 286-287: if new_price <= 0: st.error("Asset price must be a positive value.")
price_refused(new_price) == new_price <= 0

\* show_admin_dashboard line 265-298: "Update Price" with the number in the field
show_admin_dashboard_update_price(s, asset_id, new_price, outcome) ==
    /\ Routed(s, "Admin Dashboard")
    /\ session_state[s].pc = "idle"
    /\ \E a \in assets : a.asset_id = asset_id
    /\ UNCHANGED <<accounts, portfolios, asset_types, investments, transactions, pre,
                   users, navigation>>
    /\ LET updated == update_asset_price(assets, asset_id, new_price)
       IN  CASE price_refused(new_price) ->
                    /\ session_state' = [session_state EXCEPT ![s] =
                            [@ EXCEPT !.message = "Asset price must be a positive value."]]
                    /\ UNCHANGED <<assets, dashboard>>
              [] outcome = "ok" /\ RowsAffected(assets, updated) ->
                    /\ assets' = updated
                    /\ session_state' = [session_state EXCEPT ![s] = [@ EXCEPT !.message = ""]]
                    /\ dashboard' = Refresh(s)
              [] OTHER ->
                    /\ session_state' = [session_state EXCEPT ![s] =
                            [@ EXCEPT !.message = "Failed to update asset price."]]
                    /\ UNCHANGED <<assets, dashboard>>

\* a list that offers every user; users_to_delete is compared with it
all_users(rows, user_id) == rows

\* line 304-308: the rows of all_users_df but the row of the admin logged in
users_to_delete(rows, user_id) ==
    {u \in rows : users_row(u).role # "admin" \/ u # user_id}

\* what delete_user_and_all_data writes to, as one record
Stored ==
    [transactions |-> transactions, investments |-> investments, accounts |-> accounts,
     portfolios |-> portfolios, users |-> users]

\* line 105-122: the five DELETEs in the order they are executed
Statements == <<"transactions", "investments", "accounts", "portfolios", "users">>

\* what may go wrong in a call: nothing, the n-th statement (1 to 5), the
\* commit, or the connection
NoFailure == 0
CommitFails == 6
NoConnection == 7
Failures == {NoFailure, CommitFails, NoConnection} \cup DOMAIN Statements

\* the n-th DELETE applied to the tables db
delete_statement(db, n, user_id) ==
    IF Statements[n] = "users"
    THEN [db EXCEPT !.users = @ \ {user_id}]
    ELSE [db EXCEPT ![Statements[n]] = delete_where_user_id(@, user_id)]

\* the n-th DELETE is refused by a foreign key: a row it would delete is
\* referred to by a row that is still there
refused(db, n, user_id) ==
    CASE Statements[n] = "investments" ->
            \E i \in OwnedRows(db.investments, user_id) :
                restricted(db.transactions, "investment_id", i.investment_id)
      [] Statements[n] = "accounts" ->
            \E a \in OwnedRows(db.accounts, user_id) :
                restricted(db.transactions, "account_id", a.account_id)
      [] Statements[n] = "portfolios" ->
            \E q \in OwnedRows(db.portfolios, user_id) :
                restricted(db.investments, "portfolio_id", q.portfolio_id)
      [] OTHER -> FALSE

RECURSIVE execute_from(_, _, _, _)
\* the DELETEs from the n-th on, on the connection's view db of the tables,
\* up to the first that raises
execute_from(db, n, user_id, failing) ==
    IF n > Len(Statements) THEN [db |-> db, raised |-> FALSE]
    ELSE IF failing = n \/ refused(db, n, user_id) THEN [db |-> db, raised |-> TRUE]
    ELSE execute_from(delete_statement(db, n, user_id), n + 1, user_id, failing)

\* a rollback that keeps what the statements did; rollback is compared with it
keep_uncommitted(committed, uncommitted) == uncommitted

\* connection.rollback(): the tables are as the last commit left them
rollback(committed, uncommitted) == committed

\* delete_user_and_all_data line 88-136: the tables after the call, and how it
\* ended: "True", "False" (no connection) or "raised"
delete_user_and_all_data(db, user_id, failing) ==
    IF failing = NoConnection THEN [db |-> db, result |-> "False"]
    ELSE LET executed == execute_from(db, 1, user_id, failing)
         IN  IF executed.raised \/ failing = CommitFails
             THEN [db |-> rollback(db, executed.db), result |-> "raised"]
             ELSE [db |-> executed.db, result |-> "True"]

\* show_admin_dashboard line 302-338: "Confirm Delete User" for a user of the list
show_admin_dashboard_delete_user(s, user_id, failing) ==
    /\ Routed(s, "Admin Dashboard")
    /\ session_state[s].pc = "idle"
    /\ user_id \in users_to_delete(users, session_state[s].user_id)
    /\ UNCHANGED <<asset_types, assets, pre, navigation>>
    /\ LET call == delete_user_and_all_data(Stored, user_id, failing)
       IN  /\ transactions' = call.db.transactions
           /\ investments' = call.db.investments
           /\ accounts' = call.db.accounts
           /\ portfolios' = call.db.portfolios
           /\ users' = call.db.users
           /\ session_state' = [session_state EXCEPT ![s] =
                    [@ EXCEPT !.message =
                        CASE call.result = "True" -> "deleted"
                          [] call.result = "False" -> "Failed to delete user"
                          [] OTHER -> "Database error during user deletion"]]
           /\ dashboard' = IF call.result = "True" THEN Refresh(s) ELSE dashboard

\* ------------------------------------------------------- specification
\* user 1 holds the asset in two portfolios, in one, or not at all
InitialInvestments ==
    {[investment_id |-> 1, user_id |-> 1, portfolio_id |-> 1, asset_category_id |-> 1,
      asset_id |-> 1, initial_investment_amount |-> 1, quantity |-> 1],
     [investment_id |-> 2, user_id |-> 1, portfolio_id |-> 2, asset_category_id |-> 2,
      asset_id |-> 1, initial_investment_amount |-> 2, quantity |-> 2]}

UserPortfolios == {[portfolio_id |-> p, user_id |-> 1] : p \in PortfolioIds}

\* the stored state the sessions start from: user 1 with account 1, user 2 with
\* account 2; user 1 with or without portfolios; the asset_types table filled or empty
InitTables ==
    /\ accounts = {[account_id |-> 1, user_id |-> 1, current_balance |-> MaxBalance],
                   [account_id |-> 2, user_id |-> 2, current_balance |-> MaxBalance]}
    /\ assets = {[asset_id |-> a, unit_price |-> 1] : a \in AssetIds}
    /\ transactions = {}
    /\ \/ /\ asset_types = AssetTypeIds
          /\ portfolios = UserPortfolios
          /\ investments \in SUBSET InitialInvestments
       \/ /\ asset_types = {}
          /\ portfolios = UserPortfolios
          /\ investments = {}
       \/ /\ asset_types = AssetTypeIds
          /\ portfolios = {}
          /\ investments = {}

Init ==
    /\ InitTables
    /\ session_state = [s \in Sessions |-> Idle(1)]
    /\ pre = [s \in Sessions |-> NoSnapshot]
    /\ users = Users
    /\ dashboard = [s \in Sessions |-> NoDashboard]
    /\ navigation = [s \in Sessions |-> Navigating]

Sequential == {1}

AllIdle == \A s \in Sessions : session_state[s].pc = "idle"

\* One handler at a time: a script run starts, and the admin acts, only while no
\* other run is in progress.
Next ==
    \/ \E s \in Sequential, account \in AccountIds \cup {None}, asset \in AssetIds,
          qty \in Quantities, outcome \in Outcomes :
            AllIdle /\ buy_load_accounts(s, account, asset, qty, outcome) /\ Observe(s)
    \/ \E s \in Sequential, outcome \in Outcomes : buy_load_portfolios(s, outcome)
    \/ \E s \in Sequential, outcome \in Outcomes : buy_load_asset_types(s, outcome)
    \/ \E s \in Sequential, outcome \in Outcomes : buy_load_assets(s, outcome)
    \/ \E s \in Sequential, outcome \in Outcomes : buy_debit(s, outcome)
    \/ \E s \in Sequential, outcome \in Outcomes : buy_get_investments(s, outcome)
    \/ \E s \in Sequential, outcome \in Outcomes : buy_update_investment(s, outcome)
    \/ \E s \in Sequential, outcome \in Outcomes : buy_add_investment(s, outcome)
    \/ \E s \in Sequential, outcome \in Outcomes : buy_add_transaction(s, outcome)
    \/ \E s \in Sequential : rerun(s) /\ Forget(s)
    \/ \E asset \in AssetIds, price \in Prices :
            AllIdle /\ admin_update_asset_price(asset, price)
    \/ \E s \in Sequential, t \in 1..(MaxTxn + 1) :
            AllIdle /\ manage_transactions_delete(s, t)

Spec == Init /\ [][Next]_vars

\* the steps of the script run of session s after "Confirm Purchase"
buy_assets(s) ==
    \E outcome \in Outcomes :
        \/ buy_load_portfolios(s, outcome)
        \/ buy_load_asset_types(s, outcome)
        \/ buy_load_assets(s, outcome)
        \/ buy_debit(s, outcome)
        \/ buy_get_investments(s, outcome)
        \/ buy_update_investment(s, outcome)
        \/ buy_add_investment(s, outcome)
        \/ buy_add_transaction(s, outcome)

\* A script run, once started, is carried on: every database call returns (with
\* a result, with None or by raising) and the handler takes its next step.
SpecRun == Spec /\ \A s \in Sequential : WF_vars(buy_assets(s))

\* Two browser sessions of the same user, each submitting one purchase, over a
\* store that answers every call: each database call of one session may fall
\* between two calls of the other, and the admin may change a price at any time.
InitConcurrent ==
    /\ accounts = {[account_id |-> 1, user_id |-> 1, current_balance |-> MaxBalance],
                   [account_id |-> 2, user_id |-> 2, current_balance |-> MaxBalance]}
    /\ assets = {[asset_id |-> a, unit_price |-> 1] : a \in AssetIds}
    /\ transactions = {}
    /\ asset_types = AssetTypeIds
    /\ portfolios = UserPortfolios
    /\ investments \in SUBSET InitialInvestments
    /\ session_state = [s \in Sessions |-> Idle(1)]
    /\ pre = [s \in Sessions |-> NoSnapshot]
    /\ users = Users
    /\ dashboard = [s \in Sessions |-> NoDashboard]
    /\ navigation = [s \in Sessions |-> Navigating]

NextConcurrent ==
    \/ \E s \in Sessions, account \in AccountIds \cup {None}, asset \in AssetIds,
          qty \in Quantities :
            buy_load_accounts(s, account, asset, qty, "ok") /\ Observe(s)
    \/ \E s \in Sessions : buy_load_portfolios(s, "ok")
    \/ \E s \in Sessions : buy_load_asset_types(s, "ok")
    \/ \E s \in Sessions : buy_load_assets(s, "ok")
    \/ \E s \in Sessions : buy_debit(s, "ok")
    \/ \E s \in Sessions : buy_get_investments(s, "ok")
    \/ \E s \in Sessions : buy_update_investment(s, "ok")
    \/ \E s \in Sessions : buy_add_investment(s, "ok")
    \/ \E s \in Sessions : buy_add_transaction(s, "ok")
    \/ \E asset \in AssetIds, price \in Prices : admin_update_asset_price(asset, price)

SpecConcurrent == InitConcurrent /\ [][NextConcurrent]_vars

\* The dashboards of two sessions, the first of user 1 or of user 2 and the second
\* of user 1, over a store in which accounts and investments are deleted and the
\* price is changed: every query of load_data may fall before or after a change.
\* User 2 has a holding of quantity 0.
OtherUserPortfolio == [portfolio_id |-> 3, user_id |-> 2]

OtherUserInvestment ==
    [investment_id |-> 3, user_id |-> 2, portfolio_id |-> 3, asset_category_id |-> 1,
     asset_id |-> 1, initial_investment_amount |-> 0, quantity |-> 0]

InitValuation ==
    /\ accounts = {[account_id |-> 1, user_id |-> 1, current_balance |-> MaxBalance],
                   [account_id |-> 2, user_id |-> 2, current_balance |-> MaxBalance]}
    /\ assets = {[asset_id |-> a, unit_price |-> 1] : a \in AssetIds}
    /\ transactions = {}
    /\ asset_types = AssetTypeIds
    /\ portfolios = UserPortfolios \cup {OtherUserPortfolio}
    /\ investments = InitialInvestments \cup {OtherUserInvestment}
    /\ \E u \in Users : session_state = [s \in Sessions |-> IF s = 1 THEN Idle(u) ELSE Idle(1)]
    /\ pre = [s \in Sessions |-> NoSnapshot]
    /\ users = Users
    /\ dashboard = [s \in Sessions |-> NoDashboard]
    /\ navigation = [s \in Sessions |-> Navigating]

NextValuation ==
    \/ \E s \in Sessions, outcome \in Outcomes : load_investments_df(s, outcome)
    \/ \E s \in Sessions, outcome \in Outcomes : load_summary_accounts(s, outcome)
    \/ \E s \in Sessions, outcome \in Outcomes : load_summary_investments(s, outcome)
    \/ \E s \in Sequential, a \in AccountIds, outcome \in Outcomes :
            manage_accounts_delete(s, a, outcome)
    \/ \E s \in Sequential, i \in 1..3, outcome \in Outcomes :
            manage_investments_delete(s, i, outcome)
    \/ \E asset \in AssetIds, price \in Prices : admin_update_asset_price(asset, price)

SpecValuation == InitValuation /\ [][NextValuation]_vars

\* Purchases of one session over a store whose asset was added with any price,
\* also zero or negative, that add_asset takes; the store answers every call.
AssetPrices == (0 - MaxPrice)..MaxPrice

InitAssets ==
    /\ accounts = {[account_id |-> 1, user_id |-> 1, current_balance |-> MaxBalance],
                   [account_id |-> 2, user_id |-> 2, current_balance |-> MaxBalance]}
    /\ \E p \in AssetPrices : assets = add_asset({}, p)
    /\ transactions = {}
    /\ asset_types = AssetTypeIds
    /\ portfolios = UserPortfolios
    /\ investments \in SUBSET InitialInvestments
    /\ session_state = [s \in Sessions |-> Idle(1)]
    /\ pre = [s \in Sessions |-> NoSnapshot]
    /\ users = Users
    /\ dashboard = [s \in Sessions |-> NoDashboard]
    /\ navigation = [s \in Sessions |-> Navigating]

NextAssets ==
    \/ \E s \in Sequential, account \in AccountIds \cup {None}, asset \in AssetIds,
          qty \in Quantities :
            buy_load_accounts(s, account, asset, qty, "ok") /\ Observe(s)
    \/ \E s \in Sequential : buy_load_portfolios(s, "ok")
    \/ \E s \in Sequential : buy_load_asset_types(s, "ok")
    \/ \E s \in Sequential : buy_load_assets(s, "ok")
    \/ \E s \in Sequential : buy_debit(s, "ok")
    \/ \E s \in Sequential : buy_get_investments(s, "ok")
    \/ \E s \in Sequential : buy_update_investment(s, "ok")
    \/ \E s \in Sequential : buy_add_investment(s, "ok")
    \/ \E s \in Sequential : buy_add_transaction(s, "ok")
    \/ \E s \in Sequential : rerun(s) /\ Forget(s)

SpecAssets == InitAssets /\ [][NextAssets]_vars

\* The pages of user 1 that write investments, portfolios, accounts and
\* transactions, and the admin deleting a user, one handler at a time, over a
\* store that holds rows of both users.
InvestmentIds == 1..3

\* the numbers typed into a quantity field
ManualQuantities == {0 - 1, 0, 1}

\* the store carries out the statement, or it does not
Answers == {"ok", "error"}

SeedTransactions ==
    {[transaction_id |-> 1, user_id |-> 1, account_id |-> 1, investment_id |-> None,
      asset_id |-> 1, transaction_type |-> "Buy", amount |-> 1, quantity |-> 1,
      unit_price_at_transaction |-> 1],
     [transaction_id |-> 2, user_id |-> 2, account_id |-> 2, investment_id |-> None,
      asset_id |-> None, transaction_type |-> "Deposit", amount |-> 2, quantity |-> 0,
      unit_price_at_transaction |-> 0]}

InitManage ==
    /\ accounts = {[account_id |-> 1, user_id |-> 1, current_balance |-> MaxBalance],
                   [account_id |-> 2, user_id |-> 2, current_balance |-> MaxBalance]}
    /\ assets = {[asset_id |-> a, unit_price |-> 1] : a \in AssetIds}
    /\ transactions = SeedTransactions
    /\ asset_types = AssetTypeIds
    /\ portfolios = UserPortfolios \cup {OtherUserPortfolio}
    /\ investments \in SUBSET (InitialInvestments \cup {OtherUserInvestment})
    /\ session_state = [s \in Sessions |-> Idle(1)]
    /\ pre = [s \in Sessions |-> NoSnapshot]
    /\ users = Users
    /\ dashboard = [s \in Sessions |-> NoDashboard]
    /\ navigation = [s \in Sessions |-> Navigating]

NextManage ==
    \/ \E s \in Sequential, q \in PortfolioIds, quantity \in ManualQuantities,
          outcome \in Answers :
            /\ lastrowid(investments, "investment_id") \in InvestmentIds
            /\ manage_investments_add(s, q, Min(AssetTypeIds), 1, quantity, outcome)
    \/ \E s \in Sequential, i \in InvestmentIds, q \in PortfolioIds,
          quantity \in ManualQuantities, outcome \in Answers :
            manage_investments_update(s, i, q, quantity, outcome)
    \/ \E s \in Sequential, i \in InvestmentIds, outcome \in Answers :
            manage_investments_delete(s, i, outcome)
    \/ \E s \in Sequential, q \in PortfolioIds, outcome \in Answers :
            manage_portfolios_delete(s, q, outcome)
    \/ \E s \in Sequential, a \in AccountIds, outcome \in Answers :
            manage_accounts_delete(s, a, outcome)
    \/ \E s \in Sequential, x \in 1..2 : manage_transactions_delete(s, x)
    \/ \E u \in Users, outcome \in Answers : admin_delete_user(u, outcome)

SpecManage == InitManage /\ [][NextManage]_vars

\* The Manage Transactions page of user 1 and of user 2: manual entries of
\* every kind, linked to an account and a holding or to none, and deletes.
TransactionTypes == {"Deposit", "Withdrawal", "Buy", "Sell"}

TransactionIds == 1..2

InitLedger ==
    /\ accounts = {[account_id |-> 1, user_id |-> 1, current_balance |-> MaxBalance],
                   [account_id |-> 2, user_id |-> 2, current_balance |-> MaxBalance]}
    /\ assets = {[asset_id |-> a, unit_price |-> 1] : a \in AssetIds}
    /\ transactions = {}
    /\ asset_types = AssetTypeIds
    /\ portfolios = UserPortfolios \cup {OtherUserPortfolio}
    /\ investments = InitialInvestments \cup {OtherUserInvestment}
    /\ \E u \in Users : session_state = [s \in Sessions |-> Idle(IF s = 1 THEN 1 ELSE u)]
    /\ pre = [s \in Sessions |-> NoSnapshot]
    /\ users = Users
    /\ dashboard = [s \in Sessions |-> NoDashboard]
    /\ navigation = [s \in Sessions |-> Navigating]

NextLedger ==
    \/ \E s \in Sessions, transaction_type \in TransactionTypes, amount \in {MaxBalance},
          a \in AccountIds \cup {None}, i \in InvestmentIds \cup {None}, outcome \in Answers :
            /\ lastrowid(transactions, "transaction_id") \in TransactionIds
            /\ manage_transactions_add(s, transaction_type, amount, a, i, outcome)
    \/ \E s \in Sessions, x \in TransactionIds : manage_transactions_delete(s, x)

SpecLedger == InitLedger /\ [][NextLedger]_vars

\* One browser session from the login page on: it logs in as any user or admin
\* of the store, moves between the pages of its role, uses them, and logs out.
\* The store holds rows of both regular users.
Usernames == Users \cup Admins \cup {5}

\* the numbers sent as the new unit price
NewPrices == (0 - 1)..2

InitNavigation ==
    /\ accounts = {[account_id |-> 1, user_id |-> 1, current_balance |-> MaxBalance],
                   [account_id |-> 2, user_id |-> 2, current_balance |-> MaxBalance]}
    /\ assets = {[asset_id |-> a, unit_price |-> 1] : a \in AssetIds}
    /\ transactions = {}
    /\ asset_types = AssetTypeIds
    /\ portfolios = UserPortfolios \cup {OtherUserPortfolio}
    /\ investments = {OtherUserInvestment}
    /\ session_state = [s \in Sessions |-> Idle(None)]
    /\ pre = [s \in Sessions |-> NoSnapshot]
    /\ users = Users \cup Admins
    /\ dashboard = [s \in Sessions |-> NoDashboard]
    /\ navigation = [s \in Sessions |-> LoggedOut]

\* the pages of a regular user, each used while it is the page routed, with the
\* store answering: a purchase, and the deletes of the Manage pages
user_pages(s) ==
    \/ \E account \in AccountIds, asset \in AssetIds :
            /\ Routed(s, "Buy Assets")
            /\ transactions = {}
            /\ buy_load_accounts(s, account, asset, 1, "ok") /\ Observe(s)
    \/ buy_load_portfolios(s, "ok")
    \/ buy_load_asset_types(s, "ok")
    \/ buy_load_assets(s, "ok")
    \/ buy_debit(s, "ok")
    \/ buy_get_investments(s, "ok")
    \/ buy_update_investment(s, "ok")
    \/ buy_add_investment(s, "ok")
    \/ buy_add_transaction(s, "ok")
    \/ rerun(s) /\ Forget(s)
    \/ \E a \in AccountIds :
            Routed(s, "Manage Accounts") /\ manage_accounts_delete(s, a, "ok")
    \/ \E i \in InvestmentIds :
            /\ Routed(s, "Manage Investments") /\ navigation[s].user_role = "user"
            /\ manage_investments_delete(s, i, "ok")

NextNavigation ==
    \/ \E s \in Sequential, username \in Usernames, password \in Passwords,
          outcome \in Answers : login(s, username, password, outcome)
    \/ \E s \in Sequential, click \in Pages \cup {"none"} : main(s, click)
    \/ \E s \in Sequential : logout(s)
    \/ \E s \in Sequential, asset \in AssetIds, price \in NewPrices, outcome \in Answers :
            show_admin_dashboard_update_price(s, asset, price, outcome)
    \/ \E s \in Sequential, u \in Users \cup Admins, failing \in Failures :
            show_admin_dashboard_delete_user(s, u, failing)
    \/ \E s \in Sequential : user_pages(s)

SpecNavigation == InitNavigation /\ [][NextNavigation]_vars

\* ------------------------------------------------------------ properties
BalanceOf(rows, account_id) ==
    (CHOOSE a \in rows : a.account_id = account_id).current_balance

PriceOf(asset_id) == (CHOOSE a \in assets : a.asset_id = asset_id).unit_price

Holdings(rows, user_id, asset_id) ==
    {i \in rows : i.user_id = user_id /\ i.asset_id = asset_id}

Done(s) == session_state[s].pc = "done"
Ended(s, result) == Done(s) /\ session_state[s].result = result
CostOf(s) == total_cost(session_state[s].run.quantity_to_buy, session_state[s].run.unit_price)
Unchanged(s) ==
    /\ accounts = pre[s].accounts
    /\ investments = pre[s].investments
    /\ transactions = pre[s].transactions

\* C1: a buy workflow that fails after validation leaves the account balance,
\* every investment quantity and the transaction log as they were before it.
BuyAllOrNothing ==
    \A s \in Sessions : Ended(s, "aborted") => Unchanged(s)

\* C2: a buy for a new holding whose portfolio or asset category is unresolved
\* (the user has no portfolio, or no asset type exists) is aborted with the
\* balance as before, and without a new investment or transaction.
BuyUnresolvedAbortsBeforeDebit ==
    \A s \in Sessions :
        /\ Ended(s, "aborted")
        /\ session_state[s].message = "Please select a portfolio and asset category"
        => Unchanged(s)

\* C3: two purchases from one account, each affordable alone and together
\* costing more than the balance, do not both succeed, and the final balance is
\* the initial balance minus the cost of the purchases that succeeded.
NoDoubleSpend ==
    LET paid == {s \in Sessions : Ended(s, "committed")}
        spent == IF paid = {} THEN 0
                 ELSE IF paid = Sessions THEN CostOf(1) + CostOf(2)
                 ELSE CostOf(CHOOSE s \in paid : TRUE)
    IN  (/\ \A s \in Sessions :
              /\ Done(s)
              /\ session_state[s].result \in {"committed", "rejected"}
              /\ session_state[s].run.quantity_to_buy > 0
              /\ CostOf(s) <= MaxBalance
         /\ CostOf(1) + CostOf(2) > MaxBalance)
        => /\ paid # Sessions
           /\ Cardinality(transactions) <= 1
           /\ BalanceOf(accounts, 1) = MaxBalance - spent

\* C6: two purchases of one asset by one user from one account that both
\* succeed, together costing no more than the balance, raise the quantity held
\* by the sum of the quantities and lower the balance by the sum of the costs.
NoLostUpdate ==
    LET held(rows) == SumOf(Holdings(rows, 1, 1), "quantity")
        before == Min({held(pre[s].investments) : s \in Sessions})
    IN  (/\ \A s \in Sessions : Ended(s, "committed")
         /\ CostOf(1) + CostOf(2) <= MaxBalance)
        => /\ BalanceOf(accounts, 1) = MaxBalance - (CostOf(1) + CostOf(2))
           /\ held(investments) = before + session_state[1].run.quantity_to_buy
                                         + session_state[2].run.quantity_to_buy

\* C7: when the debit is applied, the unit price and the balance the workflow
\* works with are the values stored for the asset and the account.
BuyUsesStoredValues ==
    \A s \in Sessions :
        session_state[s].pc = "debit"
        => /\ session_state[s].run.unit_price = PriceOf(session_state[s].run.asset_id)
           /\ session_state[s].run.current_account_balance
                = BalanceOf(accounts, session_state[s].run.account_id)

\* the step of session s that updates an existing holding and goes on to the log
UpdatesHolding(s) ==
    /\ session_state[s].pc = "upsert"
    /\ session_state[s].run.existing_investment # None
    /\ session_state'[s].pc = "log"

\* C8: a buy of an asset the user already holds raises the quantity of exactly
\* one of the user's investments of that asset by the quantity bought, creates
\* no investment and leaves the user's other investments as they are.
BuyIncrementsOneHolding ==
    [][\A s \in Sessions :
        UpdatesHolding(s) =>
            \E i \in Holdings(investments, session_state[s].user_id,
                              session_state[s].run.asset_id) :
                investments' = (investments \ {i}) \cup
                    {[i EXCEPT !.quantity = i.quantity + session_state[s].run.quantity_to_buy]}
      ]_vars

\* C4: after a successful buy of quantity q run on its own, the account's stored
\* balance is its balance before minus q times the asset's stored unit price,
\* the user's holding of the asset has grown by q (or a new holding of quantity
\* q exists), and the log has exactly one more record, a Buy of that amount.
BuyConservation ==
    \A s \in Sessions :
        Ended(s, "committed") =>
            LET me == session_state[s]
                q == me.run.quantity_to_buy
                paid == q * PriceOf(me.run.asset_id)
                held == Holdings(pre[s].investments, me.user_id, me.run.asset_id)
            IN  /\ BalanceOf(accounts, me.run.account_id)
                     = BalanceOf(pre[s].accounts, me.run.account_id) - paid
                /\ \/ \E i \in held :
                        investments = (pre[s].investments \ {i}) \cup
                                      {[i EXCEPT !.quantity = i.quantity + q]}
                   \/ \E j \in investments \ pre[s].investments :
                        /\ investments = pre[s].investments \cup {j}
                        /\ j.user_id = me.user_id
                        /\ j.asset_id = me.run.asset_id
                        /\ j.quantity = q
                /\ \E t \in transactions \ pre[s].transactions :
                        /\ transactions = pre[s].transactions \cup {t}
                        /\ t.transaction_type = "Buy"
                        /\ t.amount = paid

\* a buy of two units has succeeded
BuyConservationWitness ==
    /\ Ended(1, "committed")
    /\ session_state[1].run.quantity_to_buy = 2
    /\ BalanceOf(accounts, 1) < BalanceOf(pre[1].accounts, 1)
    /\ transactions # pre[1].transactions

\* C5: a buy whose quantity is not positive, or whose cost is above the balance
\* of the selected account, is rejected with every balance, investment and
\* transaction as before, the insufficient-funds rejection tells the required
\* and the available amount, and a cost equal to the balance is not rejected.
BuyRejectedChangesNothing ==
    \A s \in Sessions :
        Done(s) /\ session_state[s].result # "none" /\ session_state[s].run.account_id # None =>
            LET me == session_state[s]
                q == me.run.quantity_to_buy
                balance == BalanceOf(pre[s].accounts, me.run.account_id)
                cost == q * me.run.unit_price
            IN  /\ (q <= 0 \/ cost > balance) =>
                        /\ me.result = "rejected"
                        /\ Unchanged(s)
                /\ (q > 0 /\ cost > balance) =>
                        /\ me.message = "insufficient_balance"
                        /\ me.run.required = cost
                        /\ me.run.available = balance
                /\ (q > 0 /\ cost = balance) => me.result # "rejected"

\* a buy has been rejected for insufficient funds
BuyRejectedWitness ==
    /\ Ended(1, "rejected")
    /\ session_state[1].message = "insufficient_balance"
    /\ session_state[1].run.required > session_state[1].run.available

\* C9: a successful buy of an asset the user holds no investment of creates
\* exactly one investment: the user's, in the portfolio and asset category
\* supplied for it, of that asset, with the quantity bought and the total cost
\* as its initial amount.
BuyCreatesOneHolding ==
    \A s \in Sessions :
        LET me == session_state[s]
        IN  /\ Ended(s, "committed")
            /\ Holdings(pre[s].investments, me.user_id, me.run.asset_id) = {}
            => \E j \in investments \ pre[s].investments :
                    /\ investments = pre[s].investments \cup {j}
                    /\ j.user_id = me.user_id
                    /\ j.portfolio_id = me.run.portfolio_id
                    /\ j.asset_category_id = me.run.asset_category_id
                    /\ j.asset_id = me.run.asset_id
                    /\ j.quantity = me.run.quantity_to_buy
                    /\ j.initial_investment_amount
                         = me.run.quantity_to_buy * me.run.unit_price

\* a buy of two units at price 2 has created the user's first holding of the asset
BuyCreatesOneHoldingWitness ==
    /\ Ended(1, "committed")
    /\ Holdings(pre[1].investments, 1, 1) = {}
    /\ \E j \in investments : j.quantity = 2 /\ j.initial_investment_amount = 4

\* C10: the log step of a buy adds a Buy record whose amount is the total cost,
\* whose quantity is the quantity bought and whose unit_price_at_transaction is
\* the unit price of the purchase, and no step changes these three fields of a
\* logged record.
BuyRecordIsKept ==
    [][/\ \A t \in transactions : \A u \in transactions' :
            u.transaction_id = t.transaction_id =>
                /\ u.amount = t.amount
                /\ u.quantity = t.quantity
                /\ u.unit_price_at_transaction = t.unit_price_at_transaction
       /\ \A s \in Sessions :
            session_state[s].pc = "log" /\ session_state'[s].result = "committed" =>
                \E t \in transactions' \ transactions :
                    /\ transactions' = transactions \cup {t}
                    /\ t.transaction_type = "Buy"
                    /\ t.amount = session_state[s].run.quantity_to_buy
                                    * session_state[s].run.unit_price
                    /\ t.quantity = session_state[s].run.quantity_to_buy
                    /\ t.unit_price_at_transaction = session_state[s].run.unit_price
      ]_vars

\* a logged Buy keeps the price of its purchase after the asset's price has changed
BuyRecordIsKeptWitness ==
    \E t \in transactions :
        /\ t.transaction_type = "Buy"
        /\ t.quantity = 2
        /\ t.unit_price_at_transaction # PriceOf(t.asset_id)

RECURSIVE ValueOf(_, _)
\* the sum of quantity times unit price over holdings, priced by the rows of assets
ValueOf(holdings, priced) ==
    IF holdings = {} THEN 0
    ELSE LET i == CHOOSE x \in holdings : TRUE
             a == CHOOSE x \in priced : x.asset_id = i.asset_id
         IN  i.quantity * a.unit_price + ValueOf(holdings \ {i}, priced)

OwnedBy(rows, user_id) == {r \in rows : r.user_id = user_id}

\* the summary of session s is complete: both queries of get_portfolio_summary
\* were answered and load_data has kept the result
SummaryRead(s) == dashboard[s].pc \in {"idle", "refresh"} /\ dashboard[s].summary_answered

\* C13: for every user, the summary's total_portfolio_value is its
\* total_account_balance plus its total_investment_value, the first being the sum
\* of the balances of the user's accounts and the second the sum of quantity
\* times current unit price over the user's investments, as stored when read.
PortfolioSummaryAddsUp ==
    \A s \in Sessions :
        LET d == dashboard[s]
            u == session_state[s].user_id
            summary == d.portfolio_summary
        IN  /\ summary.total_portfolio_value
                 = summary.total_account_balance + summary.total_investment_value
            /\ SummaryRead(s) =>
                 /\ summary.total_account_balance
                      = SumOf(OwnedBy(d.summary_of.accounts, u), "current_balance")
                 /\ summary.total_investment_value
                      = ValueOf(OwnedBy(d.summary_of.investments, u), d.summary_of.assets)

\* a summary of balance 4 and holdings of quantity 1 and 2 at price 2
PortfolioSummaryWitness ==
    /\ SummaryRead(1)
    /\ dashboard[1].portfolio_summary.total_account_balance = 4
    /\ dashboard[1].portfolio_summary.total_investment_value = 6
    /\ dashboard[1].portfolio_summary.total_portfolio_value = 10

\* C14: no field of the summary is ever NULL; the summary of a user without
\* accounts has total_account_balance 0 and that of a user without investments
\* has total_investment_value 0, also after the last one was deleted.
SummaryNeverNull ==
    \A s \in Sessions :
        LET d == dashboard[s]
            u == session_state[s].user_id
            summary == d.portfolio_summary
        IN  /\ summary.total_account_balance # NULL
            /\ summary.total_investment_value # NULL
            /\ summary.total_portfolio_value # NULL
            /\ d.total_account_balance # NULL
            /\ SummaryRead(s) /\ OwnedBy(d.summary_of.accounts, u) = {}
                    => summary.total_account_balance = 0
            /\ SummaryRead(s) /\ OwnedBy(d.summary_of.investments, u) = {}
                    => summary.total_investment_value = 0

\* user 1's summary, read after the account and both holdings were deleted
SummaryNeverNullWitness ==
    /\ session_state[1].user_id = 1
    /\ SummaryRead(1)
    /\ OwnedBy(accounts, 1) = {}
    /\ OwnedBy(investments, 1) = {}
    /\ OwnedBy(dashboard[1].summary_of.accounts, 1) = {}
    /\ OwnedBy(dashboard[1].summary_of.investments, 1) = {}
    /\ dashboard[1].portfolio_summary.total_portfolio_value = 0

\* session s takes a step of load_data
Reads(s) == dashboard'[s] # dashboard[s] /\ dashboard'[s].pc # "refresh"

CurrentValueIsDerived ==
    [][/\ assets' # assets => investments' = investments
       /\ \A s \in Sessions :
            LET u == session_state[s].user_id
            IN  /\ (Reads(s) /\ dashboard'[s].pc = "summary_accounts"
                             /\ dashboard'[s].df_answered) =>
                        /\ \A r \in dashboard'[s].investments_df :
                                /\ r.current_unit_price = PriceOf(r.asset_id)
                                /\ r.current_value = r.quantity * PriceOf(r.asset_id)
                        /\ {r.investment_id : r \in dashboard'[s].investments_df}
                                = {i.investment_id : i \in OwnedBy(investments, u)}
                /\ (Reads(s) /\ dashboard[s].pc = "summary_investments"
                             /\ dashboard'[s].summary_answered) =>
                        dashboard'[s].portfolio_summary.total_investment_value
                            = ValueOf(OwnedBy(investments, u), assets)
      ]_vars

\* after the price went from 1 to 2, a session shows a holding of quantity 2 at
\* value 4 while the other still shows what it read before
CurrentValueIsDerivedWitness ==
    /\ PriceOf(1) = 2
    /\ \E r \in dashboard[1].investments_df :
            r.quantity = 2 /\ r.current_unit_price = 2 /\ r.current_value = 4
    /\ \E r \in dashboard[2].investments_df :
            r.quantity = 2 /\ r.current_unit_price = 1 /\ r.current_value = 2

\* C11: a buy of an asset whose stored unit price is zero or negative is
\* rejected by the checks with every balance, investment and transaction as
\* before, and no run of the buy raises the balance of the account.
BuyRejectsNonPositivePrice ==
    \A s \in Sessions :
        /\ (/\ Done(s)
            /\ session_state[s].result # "none"
            /\ session_state[s].run.account_id # None
            /\ session_state[s].run.quantity_to_buy > 0
            /\ session_state[s].run.unit_price <= 0)
            => Ended(s, "rejected") /\ Unchanged(s)
        /\ pre[s] # NoSnapshot
            => BalanceOf(accounts, 1) <= BalanceOf(pre[s].accounts, 1)

\* C12: a step of the buy changes the balance of no account but one owned by the
\* session's user, and the Buy it logs names an account owned by that user.
BuyDebitsOwnAccount ==
    [][\A s \in Sessions :
            session_state[s].pc \notin {"idle", "done"} /\ session_state'[s] # session_state[s]
            => /\ \A a \in accounts : \A b \in accounts' :
                    (a.account_id = b.account_id /\ a.current_balance # b.current_balance)
                        => /\ a.user_id = session_state[s].user_id
                           /\ a.account_id = session_state[s].run.account_id
               /\ \A x \in transactions' \ transactions :
                    \E a \in accounts :
                        /\ a.account_id = x.account_id
                        /\ a.user_id = session_state[s].user_id
                        /\ x.user_id = session_state[s].user_id
      ]_vars

\* a purchase from account 1 is logged and account 2, of user 2, is as it was
BuyDebitsOwnAccountWitness ==
    /\ Ended(1, "committed")
    /\ \E x \in transactions : x.account_id = 1 /\ x.user_id = 1
    /\ BalanceOf(accounts, 1) < MaxBalance
    /\ BalanceOf(accounts, 2) = MaxBalance

\* the step is a delete_user_and_all_data(user_id) that succeeded
UserDeleted(user_id) == user_id \in users /\ user_id \notin users'

\* C17: after a successful delete_user_and_all_data(u) the user u is gone, no
\* account, portfolio, investment or transaction carries u's user_id, and every
\* other user has the rows they had.
DeleteUserRemovesAll ==
    [][\A u \in Users : UserDeleted(u) =>
            /\ users' = users \ {u}
            /\ OwnedBy(accounts', u) = {}
            /\ OwnedBy(portfolios', u) = {}
            /\ OwnedBy(investments', u) = {}
            /\ OwnedBy(transactions', u) = {}
            /\ \A v \in Users \ {u} :
                    /\ OwnedBy(accounts', v) = OwnedBy(accounts, v)
                    /\ OwnedBy(portfolios', v) = OwnedBy(portfolios, v)
                    /\ OwnedBy(investments', v) = OwnedBy(investments, v)
                    /\ OwnedBy(transactions', v) = OwnedBy(transactions, v)
      ]_vars

\* user 2, who had an account, a portfolio and a transaction, is deleted, and
\* user 1 is there with an account, a holding and a transaction
DeleteUserWitness ==
    /\ users = {1}
    /\ OwnedBy(accounts, 1) # {}
    /\ OwnedBy(investments, 1) # {}
    /\ OwnedBy(transactions, 1) # {}
    /\ OwnedBy(portfolios, 1) = UserPortfolios

\* every investment refers to a portfolio that is stored
InvestmentsHavePortfolios ==
    \A i \in investments : \E q \in portfolios : q.portfolio_id = i.portfolio_id

\* C18: "Delete Portfolio" on a portfolio that an investment refers to ends with
\* an error shown and with the portfolios and the investments as they were; and
\* in every reachable state each investment refers to a stored portfolio.
ReferencedPortfolioIsKept ==
    /\ []InvestmentsHavePortfolios
    /\ [][\A s \in Sessions, portfolio_id \in PortfolioIds, outcome \in Answers :
            (/\ \E i \in investments : i.portfolio_id = portfolio_id
             /\ manage_portfolios_delete(s, portfolio_id, outcome))
            => /\ portfolios' = portfolios
               /\ investments' = investments
               /\ session_state'[s].message \in
                    {"Failed to delete portfolio: a foreign key constraint fails",
                     "Failed to delete portfolio: database error"}
        ]_vars

\* the store has refused to delete a portfolio because of a holding in it, and
\* both portfolios of user 1 and the holding are there
ReferencedPortfolioWitness ==
    /\ session_state[1].message = "Failed to delete portfolio: a foreign key constraint fails"
    /\ OwnedBy(portfolios, 1) = UserPortfolios
    /\ \E i \in investments : i.user_id = 1 /\ i.portfolio_id \in PortfolioIds

\* the step takes records out of the transactions table and adds none, and
\* no user is deleted in it
TransactionDeleted ==
    /\ transactions' # transactions
    /\ transactions' \subseteq transactions
    /\ users' = users

\* C19: no step changes a field of a stored transaction, and a step that
\* deletes a transaction takes out that one record and leaves the accounts and
\* the investments, so every balance and every quantity, as they were.
TransactionsAppendOnly ==
    [][/\ \A t \in transactions : \A u \in transactions' :
            u.transaction_id = t.transaction_id => u = t
       /\ TransactionDeleted =>
            /\ Cardinality(transactions \ transactions') = 1
            /\ accounts' = accounts
            /\ investments' = investments
      ]_vars

\* the record of the first purchase was deleted after a second purchase was
\* logged, and account 1 is still short of the cost of both
TransactionsAppendOnlyWitness ==
    /\ AllIdle
    /\ \A t \in transactions : t.transaction_id = 2 /\ t.transaction_type = "Buy"
    /\ transactions # {}
    /\ BalanceOf(accounts, 1) = MaxBalance - 2
    /\ \E i \in investments : i.quantity > 2

\* C20: in every state reached through manual add, update and delete of
\* investments, every investment's quantity is greater than or equal to 0.
QuantityNeverNegative == \A i \in investments : i.quantity >= 0

\* the run of session s is in progress
Running(s) == session_state[s].pc \notin {"idle", "done"}

\* the run of session s is over and did not go through: a check refused it
\* ("rejected"), a load failed ("none"), or a step after the checks failed
Aborted(s) == Done(s) /\ session_state[s].result \in {"rejected", "none", "aborted"}

\* the run of session s has debited its account: the balance is the balance
\* before the run less the cost
Debited(s) ==
    LET run == session_state[s].run
    IN  /\ run.account_id # None
        /\ BalanceOf(accounts, run.account_id)
              = BalanceOf(pre[s].accounts, run.account_id)
                    - total_cost(run.quantity_to_buy, run.unit_price)
        /\ BalanceOf(accounts, run.account_id) # BalanceOf(pre[s].accounts, run.account_id)

\* the run of session s has raised or created its holding
Upserted(s) ==
    \E i \in investments \ pre[s].investments :
        /\ i.user_id = session_state[s].user_id
        /\ i.asset_id = session_state[s].run.asset_id

\* C23: every run of the buy ends, committed or aborted; a run debits only
\* while it has changed no holding and logged nothing, changes a holding only
\* after its debit, and logs its Buy only after its debit and its holding.
BuyStepsInOrder ==
    /\ \A s \in Sequential : Running(s) ~> (Ended(s, "committed") \/ Aborted(s))
    /\ [][\A s \in Sessions : Running(s) =>
            /\ accounts' # accounts =>
                    /\ investments = pre[s].investments
                    /\ transactions = pre[s].transactions
            /\ investments' # investments =>
                    /\ Debited(s)
                    /\ transactions = pre[s].transactions
            /\ transactions' # transactions =>
                    /\ Debited(s)
                    /\ Upserted(s)
                    /\ session_state'[s].result = "committed"
        ]_vars

\* a run has ended committed, with the debit, the holding and the Buy record
BuyStepsInOrderWitness ==
    /\ Ended(1, "committed")
    /\ Debited(1)
    /\ Upserted(1)
    /\ \E x \in transactions \ pre[1].transactions : x.transaction_type = "Buy"

\* row after is row before but for the one column
SameBut(before, after, column) ==
    /\ DOMAIN after = DOMAIN before
    /\ \A c \in DOMAIN before \ {column} : after[c] = before[c]

\* C26: the step that commits a buy leaves, compared with the tables at the
\* start of the run: every account but the debited one as it was, and that one
\* changed in its balance only; every investment as it was but one, changed in
\* its quantity only, or else one new investment; the logged transactions as
\* they were; and no step of a run changes an asset, an asset type, a
\* portfolio or a user.
BuyChangesOnlyItsRows ==
    [][\A s \in Sessions : Running(s) =>
            /\ assets' = assets
            /\ asset_types' = asset_types
            /\ portfolios' = portfolios
            /\ users' = users
            /\ session_state'[s].result = "committed" =>
                LET before == pre[s]
                    run == session_state[s].run
                    me == session_state[s].user_id
                IN  /\ \A a \in before.accounts :
                            \E b \in accounts' :
                                /\ b.account_id = a.account_id
                                /\ IF a.account_id = run.account_id
                                   THEN SameBut(a, b, "current_balance")
                                   ELSE b = a
                    /\ Cardinality(accounts') = Cardinality(before.accounts)
                    /\ \/ \E i \in before.investments : \E j \in investments' :
                            /\ j.investment_id = i.investment_id
                            /\ SameBut(i, j, "quantity")
                            /\ j.quantity # i.quantity
                            /\ investments' = (before.investments \ {i}) \cup {j}
                       \/ \E j \in investments' \ before.investments :
                            /\ investments' = before.investments \cup {j}
                            /\ \A i \in before.investments :
                                    i.investment_id # j.investment_id
                    /\ before.transactions \subseteq transactions'
                    /\ \A v \in Users \ {me} :
                            /\ OwnedBy(accounts', v) = OwnedBy(before.accounts, v)
                            /\ OwnedBy(investments', v) = OwnedBy(before.investments, v)
                            /\ OwnedBy(transactions', v) = OwnedBy(before.transactions, v)
      ]_vars

\* a buy has been committed that raised one of two holdings of user 1: the
\* other holding and the account of user 2 are as they were
BuyChangesOnlyItsRowsWitness ==
    /\ Ended(1, "committed")
    /\ Cardinality(pre[1].investments) = 2
    /\ Cardinality(investments \cap pre[1].investments) = 1
    /\ Cardinality(investments) = 2
    /\ OwnedBy(accounts, 2) = OwnedBy(pre[1].accounts, 2)
    /\ OwnedBy(accounts, 2) # {}

\* C27: a step that appends a manual entry to the transactions appends one
\* record, of the session's user, and leaves every account and every
\* investment, so the balance and the quantity it is linked to, as they were.
ManualEntryOnlyAppends ==
    [][(transactions' # transactions /\ transactions \subseteq transactions') =>
            /\ Cardinality(transactions' \ transactions) = 1
            /\ accounts' = accounts
            /\ investments' = investments
            /\ \A x \in transactions' \ transactions :
                    \E s \in Sessions : x.user_id = session_state[s].user_id
      ]_vars

\* a Deposit and a Sell were entered, linked to account 1 and to holding 1:
\* the balance and the quantity are the ones the store started with
ManualEntryWitness ==
    /\ \E x \in transactions :
            x.transaction_type = "Deposit" /\ x.account_id = 1 /\ x.amount = MaxBalance
    /\ \E x \in transactions :
            x.transaction_type = "Sell" /\ x.investment_id = 1 /\ x.account_id = 1
    /\ BalanceOf(accounts, 1) = MaxBalance
    /\ \E i \in investments : i.investment_id = 1 /\ i.quantity = 1

\* C21: a step changes no asset type and changes the assets only in the unit
\* price, only while an admin session is on the Admin Dashboard, and only to a
\* price above 0; while no session is an admin's, no step changes an asset.
ReferenceDataChangesByAdminOnly ==
    [][/\ asset_types' = asset_types
       /\ assets' # assets =>
            /\ \E s \in Sessions :
                    /\ Routed(s, "Admin Dashboard")
                    /\ navigation[s].user_role = "admin"
                    /\ role_of(session_state[s].user_id) = "admin"
            /\ \A a \in assets : \E b \in assets' :
                    b.asset_id = a.asset_id /\ SameBut(a, b, "unit_price")
            /\ Cardinality(assets') = Cardinality(assets)
            /\ \A b \in assets' \ assets : b.unit_price > 0
       /\ (\A s \in Sessions : navigation[s].user_role # "admin") => assets' = assets
      ]_vars

\* an admin has changed the price, and a regular user, logged in after the
\* admin, has bought at it
ReferenceDataWitness ==
    /\ navigation[1].user_role = "user"
    /\ \E a \in assets : a.unit_price = 2
    /\ \E x \in transactions : x.unit_price_at_transaction = 2

\* C29: a step that removes a user from the store, taken by an admin session,
\* does not remove the user of that session.
AdminNeverDeletesSelf ==
    [][\A s \in Sequential : \A u \in users \ users' :
            /\ Routed(s, "Admin Dashboard")
            /\ u # session_state[s].user_id
            /\ session_state[s].user_id \in users => session_state[s].user_id \in users'
      ]_vars

\* the admin of the session has deleted the other admin and a regular user
AdminNeverDeletesSelfWitness ==
    /\ Routed(1, "Admin Dashboard")
    /\ session_state[1].user_id = ADMIN
    /\ users = {ADMIN, 2}
    /\ session_state[1].message = "deleted"

\* C30: a page is routed only in a session that is logged in, and it is the
\* current page and an option of the session's role (so never the Admin
\* Dashboard for a user, never Buy Assets for an admin); a session becomes
\* logged in only with a password whose hash is the stored one, as the user
\* of the username typed, with no current page; the first page it gets is the
\* first option of its role; and a logout leaves the session as one that
\* never logged in.
NavigationIsConsistent ==
    /\ [](\A s \in Sessions :
            /\ navigation[s].routed # "none" =>
                    /\ navigation[s].logged_in
                    /\ navigation[s].routed = navigation[s].current_page
                    /\ navigation[s].routed \in Options(navigation[s].user_role)
            /\ navigation[s].user_role = "user" => navigation[s].routed # "Admin Dashboard"
            /\ navigation[s].user_role = "admin" => navigation[s].routed # "Buy Assets"
            /\ navigation[s].logged_in <=> session_state[s].user_id # None)
    /\ [][\A s \in Sessions :
            /\ (~navigation[s].logged_in /\ navigation'[s].logged_in) =>
                    LET user == users_row(session_state'[s].user_id)
                    IN  /\ user.user_id \in users'
                        /\ user.username = navigation'[s].username_input
                        /\ user.password = hash_password(navigation'[s].password_input)
                        /\ navigation'[s].user_role = user.role
                        /\ navigation'[s].current_page = "none"
                        /\ navigation'[s].routed = "none"
            /\ (navigation[s].logged_in /\ navigation[s].current_page = "none"
                    /\ navigation'[s].logged_in) =>
                    /\ navigation'[s].current_page
                            = navigation_options(navigation[s].user_role)[1]
                    /\ navigation'[s].routed = navigation'[s].current_page
            /\ (navigation[s].logged_in /\ ~navigation'[s].logged_in) =>
                    /\ navigation'[s] = LoggedOut
                    /\ session_state'[s].user_id = None
                    /\ dashboard'[s] = NoDashboard
        ]_vars

\* after a regular user, who bought on Buy Assets, an admin has logged in and
\* is on the Admin Dashboard
NavigationWitness ==
    /\ Routed(1, "Admin Dashboard")
    /\ navigation[1].user_role = "admin"
    /\ navigation[1].current_page = "Admin Dashboard"
    /\ \E x \in transactions : x.transaction_type = "Buy"

\* the step takes a row out of the users or of a table of user data
RowsRemoved ==
    \/ users \ users' # {}
    \/ accounts \ accounts' # {}
    \/ portfolios \ portfolios' # {}
    \/ investments \ investments' # {}
    \/ transactions \ transactions' # {}

\* C24: a delete_user_and_all_data that raises leaves the users and the four
\* tables of user data as they were, and a step of the Admin Dashboard that
\* takes any row out of them takes out one user with all of that user's rows.
DeleteUserIsAllOrNothing ==
    [][\A s \in Sequential : Routed(s, "Admin Dashboard") =>
            /\ session_state'[s].message = "Database error during user deletion"
                    => Stored' = Stored
            /\ session_state'[s].message = "Failed to delete user" => Stored' = Stored
            /\ RowsRemoved =>
                    \E u \in users :
                        /\ session_state'[s].message = "deleted"
                        /\ users' = users \ {u}
                        /\ accounts' = accounts \ OwnedBy(accounts, u)
                        /\ portfolios' = portfolios \ OwnedBy(portfolios, u)
                        /\ investments' = investments \ OwnedBy(investments, u)
                        /\ transactions' = transactions \ OwnedBy(transactions, u)
      ]_vars

\* a delete has raised, and user 1 is there with account, holding and
\* transaction
DeleteUserIsAllOrNothingWitness ==
    /\ session_state[1].message = "Database error during user deletion"
    /\ 1 \in users
    /\ OwnedBy(accounts, 1) # {}
    /\ OwnedBy(investments, 1) # {}
    /\ OwnedBy(transactions, 1) # {}

\* ------------------------------------------------- the add forms, with names
\* The rows of accounts, portfolios and investments with the name columns the
\* other specifications leave out.
AccountNames == {"Savings", "Brokerage"}
PortfolioNames == {"Growth", "Retirement"}
InvestmentNames == {"Gold", "Bitcoin"}
Symbols == {"", "BTC"}

\* MySQL's ER_DUP_ENTRY, the errno the three handlers test for
ER_DUP_ENTRY == 1062

\* an errno of a statement that fails for another reason (lock wait timeout)
ER_LOCK_WAIT_TIMEOUT == 1205

\* the unique keys of the three tables
UniqueKeys ==
    [accounts |-> {"user_id", "account_name"},
     portfolios |-> {"user_id", "portfolio_name"},
     investments |-> {"user_id", "investment_name", "symbol"}]

\* the INSERT of row would give two rows the same values in the columns of a
\* unique key
duplicate_entry(rows, columns, row) == \E r \in rows : \A c \in columns : r[c] = row[c]

\* execute_query with an INSERT, line 25-59: None without a connection; the
\* statement raises with its errno, rolled back; else the row is committed
\* and lastrowid returned
execute_insert(rows, key, columns, row, outcome) ==
    CASE outcome = "noconn" -> [rows |-> rows, result |-> None, errno |-> 0]
      [] outcome = "error" -> [rows |-> rows, result |-> None, errno |-> ER_LOCK_WAIT_TIMEOUT]
      [] OTHER ->
            IF duplicate_entry(rows, columns, row)
            THEN [rows |-> rows, result |-> None, errno |-> ER_DUP_ENTRY]
            ELSE [rows |-> rows \cup {(key :> lastrowid(rows, key)) @@ row},
                  result |-> lastrowid(rows, key), errno |-> 0]

\* INSERT INTO accounts (user_id, account_name, account_type, current_balance, currency)
add_account(rows, user_id, account_name, initial_balance, outcome) ==
    execute_insert(rows, "account_id", UniqueKeys.accounts,
        [user_id |-> user_id, account_name |-> account_name,
         current_balance |-> initial_balance], outcome)

\* INSERT INTO portfolios (user_id, portfolio_name, description)
add_portfolio(rows, user_id, portfolio_name, outcome) ==
    execute_insert(rows, "portfolio_id", UniqueKeys.portfolios,
        [user_id |-> user_id, portfolio_name |-> portfolio_name], outcome)

\* INSERT INTO investments (...), with investment_name and symbol
add_investment_with_name(rows, user_id, portfolio_id, asset_category_id, asset_id, investment_name, symbol, outcome) ==
    execute_insert(rows, "investment_id", UniqueKeys.investments,
        [user_id |-> user_id, portfolio_id |-> portfolio_id,
         asset_category_id |-> asset_category_id, asset_id |-> asset_id,
         investment_name |-> investment_name, symbol |-> symbol,
         initial_investment_amount |-> 0, quantity |-> 0], outcome)

Forms == {"account", "portfolio", "investment"}

\* st.error in the three handlers, by what went wrong
AlreadyExists ==
    [account |-> "Failed to add account: An account with this name already exists for you.",
     portfolio |-> "Failed to add portfolio: A portfolio with this name already exists for you.",
     investment |-> "Failed to add investment: An investment with this name/symbol already exists for you."]

DatabaseError ==
    [account |-> "Failed to add account: Database error",
     portfolio |-> "Failed to add portfolio: Database error",
     investment |-> "Failed to add investment: Database error"]

NoRowsAffected ==
    [account |-> "Failed to add account. No rows were affected or a database error occurred.",
     portfolio |-> "Failed to add portfolio. This might be due to a database error or no rows affected.",
     investment |-> "Failed to add investment. No rows were affected or a database error occurred."]

Added == [account |-> "Account added", portfolio |-> "Portfolio added",
          investment |-> "Investment added"]

\* every raised error shown as a database error; error_message is compared with it
database_error_message(form, errno) == DatabaseError[form]

\* except Error as e: if e.errno == 1062 ... else ...
error_message(form, errno) ==
    IF errno = ER_DUP_ENTRY THEN AlreadyExists[form] ELSE DatabaseError[form]

\* what a submitted add form shows, from what the add_ call returned or raised
add_message(form, call) ==
    CASE call.errno # 0 -> error_message(form, call.errno)
      [] call.result # None -> Added[form]
      [] OTHER -> NoRowsAffected[form]

\* the session after the form was handled; the observer notes what was
\* submitted and whether the store executed the statement
Submitted(s, form, name, call, outcome) ==
    [session_state EXCEPT ![s] =
        [Idle(@.user_id) EXCEPT
            !.result = IF call.errno # 0 THEN "raised"
                       ELSE IF call.result # None THEN "ok" ELSE "none",
            !.message = add_message(form, call),
            !.run = [form |-> form, name |-> name, executed |-> outcome = "ok"]]]

\* manage_accounts line 621-644: "Add New Account"
manage_accounts_add(s, account_name, initial_balance, outcome) ==
    /\ session_state[s].pc = "idle"
    /\ dashboard[s].pc \in {"idle", "refresh"}
    /\ LET call == add_account(accounts, session_state[s].user_id, account_name,
                        initial_balance, outcome)
       IN  /\ accounts' = call.rows
           /\ session_state' = Submitted(s, "account", <<account_name>>, call, outcome)
           /\ dashboard' = IF call.errno = 0 /\ call.result # None
                           THEN Refresh(s) ELSE dashboard
    /\ UNCHANGED <<portfolios, asset_types, assets, investments, transactions,
                   pre, users, navigation>>

\* manage_portfolios line 508-530: "Add New Portfolio"
manage_portfolios_add(s, portfolio_name, outcome) ==
    /\ session_state[s].pc = "idle"
    /\ dashboard[s].pc \in {"idle", "refresh"}
    /\ LET call == add_portfolio(portfolios, session_state[s].user_id, portfolio_name,
                        outcome)
       IN  /\ portfolios' = call.rows
           /\ session_state' = Submitted(s, "portfolio", <<portfolio_name>>, call, outcome)
           /\ dashboard' = IF call.errno = 0 /\ call.result # None
                           THEN Refresh(s) ELSE dashboard
    /\ UNCHANGED <<accounts, asset_types, assets, investments, transactions,
                   pre, users, navigation>>

\* manage_investments line 724-787: "Add New Investment (Manually)", with the
\* name and the symbol typed; portfolio, category and asset are chosen from
\* the frames load_data filled
manage_investments_add_with_name(s, portfolio_id, asset_id, investment_name, symbol, outcome) ==
    /\ session_state[s].pc = "idle"
    /\ dashboard[s].pc \in {"idle", "refresh"}
    /\ \E q \in get_portfolios_by_user(session_state[s].user_id) :
            q.portfolio_id = portfolio_id
    /\ \E a \in assets : a.asset_id = asset_id
    /\ LET call == add_investment_with_name(investments, session_state[s].user_id,
                        portfolio_id, 1, asset_id, investment_name, symbol, outcome)
       IN  /\ investments' = call.rows
           /\ session_state' = Submitted(s, "investment", <<investment_name, symbol>>,
                                    call, outcome)
           /\ dashboard' = IF call.errno = 0 /\ call.result # None
                           THEN Refresh(s) ELSE dashboard
    /\ UNCHANGED <<accounts, portfolios, asset_types, assets, transactions,
                   pre, users, navigation>>

\* The add forms of user 1 and user 2; each user starts with one account, one
\* portfolio and one investment, under the same names.
NamedIds == 1..3

InitNames ==
    /\ accounts = {[account_id |-> u, user_id |-> u, account_name |-> "Savings",
                    current_balance |-> MaxBalance] : u \in Users}
    /\ portfolios = {[portfolio_id |-> u, user_id |-> u, portfolio_name |-> "Growth"]
                        : u \in Users}
    /\ investments = {[investment_id |-> u, user_id |-> u, portfolio_id |-> u,
                       asset_category_id |-> 1, asset_id |-> 1,
                       investment_name |-> "Gold", symbol |-> "",
                       initial_investment_amount |-> 0, quantity |-> 0] : u \in Users}
    /\ assets = {[asset_id |-> a, unit_price |-> 1] : a \in AssetIds}
    /\ asset_types = AssetTypeIds
    /\ transactions = {}
    /\ session_state = [s \in Sessions |-> Idle(s)]
    /\ pre = [s \in Sessions |-> NoSnapshot]
    /\ users = Users
    /\ dashboard = [s \in Sessions |-> NoDashboard]
    /\ navigation = [s \in Sessions |-> Navigating]

NextNames ==
    \/ \E s \in Sessions, account_name \in AccountNames, outcome \in Outcomes :
            /\ manage_accounts_add(s, account_name, 0, outcome)
            /\ \A a \in accounts' : a.account_id \in NamedIds
    \/ \E s \in Sessions, portfolio_name \in PortfolioNames, outcome \in Outcomes :
            /\ manage_portfolios_add(s, portfolio_name, outcome)
            /\ \A q \in portfolios' : q.portfolio_id \in NamedIds
    \/ \E s \in Sessions, p \in NamedIds, investment_name \in InvestmentNames,
          symbol \in Symbols, outcome \in Outcomes :
            /\ manage_investments_add_with_name(s, p, 1, investment_name, symbol, outcome)
            /\ \A i \in investments' : i.investment_id \in NamedIds

SpecNames == InitNames /\ [][NextNames]_vars

\* the rows of the session's user that carry the name submitted
SameName(s, form, name) ==
    CASE form = "account" ->
            {r \in OwnedRows(accounts, session_state[s].user_id) :
                <<r.account_name>> = name}
      [] form = "portfolio" ->
            {r \in OwnedRows(portfolios, session_state[s].user_id) :
                <<r.portfolio_name>> = name}
      [] form = "investment" ->
            {r \in OwnedRows(investments, session_state[s].user_id) :
                <<r.investment_name, r.symbol>> = name}

\* C22: an add form submitted with a name (for an investment, a name and
\* symbol) that a row of the session's user carries leaves accounts, portfolios
\* and investments as they are, and where the store executed the INSERT the
\* message is the one of the duplicate name, which is neither the message of
\* a database error nor the one of a call that returned nothing; no step
\* gives a user two rows under one name.
DuplicateNameIsReported ==
    /\ [](\A form \in Forms :
            /\ AlreadyExists[form] # DatabaseError[form]
            /\ AlreadyExists[form] # NoRowsAffected[form])
    /\ [][\A s \in Sessions :
            LET form == session_state'[s].run.form
                name == session_state'[s].run.name
            IN  /\ (session_state'[s] # session_state[s] /\ SameName(s, form, name) # {}) =>
                    /\ accounts' = accounts
                    /\ portfolios' = portfolios
                    /\ investments' = investments
                    /\ session_state'[s].message # Added[form]
                    /\ session_state'[s].run.executed =>
                            /\ session_state'[s].message = AlreadyExists[form]
                            /\ session_state'[s].result = "raised"
                /\ (session_state'[s] # session_state[s]
                        /\ session_state'[s].message = AlreadyExists[form]) =>
                            SameName(s, form, name) # {}
      ]_vars

\* user 1 was told that the account exists, user 2 that the investment
\* exists, and user 2 has added an account under a second name
DuplicateNameWitness ==
    /\ session_state[1].message = AlreadyExists["account"]
    /\ session_state[2].message = AlreadyExists["investment"]
    /\ Cardinality(OwnedRows(accounts, 2)) = 2
    /\ Cardinality(OwnedRows(accounts, 1)) = 1

\* ------------------------------------------------------------ execute_query
\* The query text in words; " " is white space (add_investment's text starts
\* with a line break and spaces).  The statements are the ones on accounts.
Queries ==
    {<<"INSERT", "INTO accounts">>, <<" ", "INSERT", "INTO accounts", " ">>,
     <<"UPDATE", "accounts SET current_balance">>, <<"DELETE", "FROM accounts">>,
     <<"SELECT", "* FROM accounts">>}

\* str.strip(): white space taken off both ends
RECURSIVE strip(_)
strip(query) ==
    IF query = <<>> THEN query
    ELSE IF Head(query) = " " THEN strip(Tail(query))
    ELSE IF query[Len(query)] = " " THEN strip(SubSeq(query, 1, Len(query) - 1))
    ELSE query

\* str.upper(), on the words that occur
upper(query) ==
    [n \in DOMAIN query |->
        CASE query[n] = "insert" -> "INSERT"
          [] query[n] = "update" -> "UPDATE"
          [] query[n] = "delete" -> "DELETE"
          [] OTHER -> query[n]]

\* str.startswith(prefix or tuple of prefixes)
startswith(query, prefixes) == query # <<>> /\ Head(query) \in prefixes

\* what MySQL does with the statement in the connection's transaction
statement_applied(rows, query, account_id, value) ==
    LET verb == Head(strip(query))
    IN  CASE verb = "INSERT" ->
                rows \cup {[account_id |-> lastrowid(rows, "account_id"),
                            user_id |-> 1, current_balance |-> value]}
          [] verb = "UPDATE" -> update_account_balance(rows, account_id, value)
          [] verb = "DELETE" -> delete_account(rows, account_id)
          [] OTHER -> rows

\* where a call fails: nowhere, at create_connection, at cursor.execute, at
\* connection.commit
FailsAt == {"nowhere", "connect", "execute", "commit"}

\* a commit that stores nothing; commit is compared with it
commit_nothing(committed, working) == committed

\* connection.commit(): what the transaction wrote is stored
commit(committed, working) == working

\* execute_query line 25-59 on table accounts: the stored rows after the call
\* and what the call returned ("raised" when it raised)
execute_query(rows, query, account_id, value, fetch, failing) ==
    IF failing = "connect"
    THEN [rows |-> rows, result |-> "None", lastrowid |-> None]
    ELSE IF failing = "execute"
    THEN [rows |-> rollback(rows, rows), result |-> "raised", lastrowid |-> None]
    ELSE LET working == statement_applied(rows, query, account_id, value)
         IN  IF fetch
             THEN [rows |-> rows, result |-> "rows", lastrowid |-> None]
             ELSE IF failing = "commit"
             THEN [rows |-> rollback(rows, working), result |-> "raised",
                   lastrowid |-> None]
             ELSE IF startswith(upper(strip(query)), {"INSERT"})
             THEN [rows |-> commit(rows, working), result |-> "lastrowid",
                   lastrowid |-> lastrowid(rows, "account_id")]
             ELSE IF startswith(upper(strip(query)), {"UPDATE", "DELETE"})
             THEN [rows |-> commit(rows, working),
                   result |-> IF RowsAffected(rows, working) THEN "True" ELSE "False",
                   lastrowid |-> None]
             ELSE [rows |-> commit(rows, working), result |-> "True", lastrowid |-> None]

\* a call of execute_query by session s; the observer notes the arguments,
\* where the call failed, and what it returned
call_execute_query(s, query, account_id, value, failing) ==
    /\ session_state[s].pc = "idle"
    \* a call with fetch=True does not commit, so it does not fail there
    /\ failing = "commit" => ~startswith(strip(query), {"SELECT"})
    /\ LET fetch == startswith(strip(query), {"SELECT"})
           call == execute_query(accounts, query, account_id, value, fetch, failing)
       IN  /\ accounts' = call.rows
           /\ session_state' =
                [session_state EXCEPT ![s] =
                    [Idle(@.user_id) EXCEPT
                        !.result = call.result,
                        !.run = [query |-> query, account_id |-> account_id,
                                 value |-> value, failing |-> failing,
                                 lastrowid |-> call.lastrowid]]]
    /\ UNCHANGED <<portfolios, asset_types, assets, investments, transactions,
                   pre, dashboard, users, navigation>>

\* Calls of execute_query with every statement on accounts, failing nowhere
\* or at any of its three database calls.
QueryIds == 1..3
QueryValues == 0..1

InitQuery ==
    /\ accounts = {[account_id |-> 1, user_id |-> 1, current_balance |-> 0]}
    /\ portfolios = {}
    /\ investments = {}
    /\ assets = {[asset_id |-> a, unit_price |-> 1] : a \in AssetIds}
    /\ asset_types = AssetTypeIds
    /\ transactions = {}
    /\ session_state = [s \in Sessions |-> Idle(s)]
    /\ pre = [s \in Sessions |-> NoSnapshot]
    /\ users = Users
    /\ dashboard = [s \in Sessions |-> NoDashboard]
    /\ navigation = [s \in Sessions |-> Navigating]

NextQuery ==
    \E s \in Sequential, query \in Queries, a \in QueryIds, value \in QueryValues,
       failing \in FailsAt :
        /\ call_execute_query(s, query, a, value, failing)
        /\ \A r \in accounts' : r.account_id \in QueryIds

SpecQuery == InitQuery /\ [][NextQuery]_vars

\* the rows of before that the step has changed or removed
Affected(before, after) == before \ after

\* C25: a call of execute_query that fails at the connection returns None and
\* one that fails at the statement or at the commit raises, both with the
\* stored rows as before; an UPDATE or DELETE that returns returns True with a
\* row affected and False with none; a returned INSERT has stored one row
\* under the id returned, a returned UPDATE has stored the value in the row
\* of the id, a returned DELETE has removed it; and a call that returns True
\* or an id has changed the stored rows.
ExecuteQueryReportsWhatIsStored ==
    [][\A s \in Sessions : session_state'[s] # session_state[s] =>
            LET call == session_state'[s].run
                result == session_state'[s].result
                verb == Head(strip(call.query))
            IN  /\ call.failing = "connect" => result = "None" /\ accounts' = accounts
                /\ call.failing \in {"execute", "commit"} =>
                        result = "raised" /\ accounts' = accounts
                /\ result \in {"None", "raised"} <=> call.failing # "nowhere"
                /\ (call.failing = "nowhere" /\ verb \in {"UPDATE", "DELETE"}) =>
                        /\ result \in {"True", "False"}
                        /\ result = "True" <=> Cardinality(Affected(accounts, accounts')) >= 1
                /\ (call.failing = "nowhere" /\ verb = "INSERT") =>
                        /\ result = "lastrowid"
                        /\ \E r \in accounts' \ accounts :
                                /\ accounts' = accounts \cup {r}
                                /\ r.account_id = call.lastrowid
                                /\ r.current_balance = call.value
                /\ (call.failing = "nowhere" /\ verb = "UPDATE") =>
                        /\ Cardinality(accounts') = Cardinality(accounts)
                        /\ \A r \in accounts :
                            /\ r.account_id = call.account_id =>
                                    [r EXCEPT !.current_balance = call.value] \in accounts'
                            /\ r.account_id # call.account_id => r \in accounts'
                /\ (call.failing = "nowhere" /\ verb = "DELETE") =>
                        accounts' = {r \in accounts : r.account_id # call.account_id}
                /\ (call.failing = "nowhere" /\ verb = "SELECT") =>
                        result = "rows" /\ accounts' = accounts
                /\ result \in {"True", "lastrowid"} => accounts' # accounts
      ]_vars

\* an UPDATE that changed no row has returned False, after two INSERTs
ExecuteQueryWitness ==
    /\ session_state[1].result = "False"
    /\ Head(strip(session_state[1].run.query)) = "UPDATE"
    /\ \E r \in accounts : r.account_id = session_state[1].run.account_id
    /\ Cardinality(accounts) = 3

\* ---------------------------------------------------- one user and another
\* SELECT ... FROM transactions t LEFT JOIN ... WHERE t.user_id = %s
get_transactions_by_user(user_id) == {x \in transactions : x.user_id = user_id}

\* manage_accounts line 646-674: "Update Account Balance"; the account is one
\* of the session's accounts_df
manage_accounts_update_balance(s, account_id, new_balance, outcome) ==
    /\ session_state[s].pc = "idle"
    /\ dashboard[s].pc \in {"idle", "refresh"}
    /\ \E a \in get_accounts_by_user(session_state[s].user_id) : a.account_id = account_id
    /\ UNCHANGED <<portfolios, asset_types, assets, investments, transactions,
                   session_state, pre, users, navigation>>
    /\ LET updated == update_account_balance(accounts, account_id, new_balance)
       IN  IF outcome = "ok" /\ RowsAffected(accounts, updated)
           THEN /\ accounts' = updated
                /\ dashboard' = Refresh(s)
           ELSE UNCHANGED <<accounts, dashboard>>

\* The pages of one regular user, user 1 or user 2, over a store that holds an
\* account, a portfolio, a holding and a transaction of each of the two.
NewBalances == {1}

\* a buy is started while no holding is above these quantities
HeldQuantities == 0..2

OtherUserTransaction ==
    [transaction_id |-> 1, user_id |-> 2, account_id |-> 2, investment_id |-> 3,
     asset_id |-> 1, transaction_type |-> "Buy", amount |-> 1, quantity |-> 1,
     unit_price_at_transaction |-> 1]

InitIsolation ==
    /\ accounts = {[account_id |-> 1, user_id |-> 1, current_balance |-> MaxBalance],
                   [account_id |-> 2, user_id |-> 2, current_balance |-> MaxBalance]}
    /\ assets = {[asset_id |-> a, unit_price |-> 1] : a \in AssetIds}
    /\ transactions = {OtherUserTransaction}
    /\ asset_types = AssetTypeIds
    /\ portfolios = UserPortfolios \cup {OtherUserPortfolio}
    /\ \E mine \in {InitialInvestments, {}} : investments = mine \cup {OtherUserInvestment}
    /\ \E u \in Users : session_state = [s \in Sessions |-> Idle(u)]
    /\ pre = [s \in Sessions |-> NoSnapshot]
    /\ users = Users
    /\ dashboard = [s \in Sessions |-> NoDashboard]
    /\ navigation = [s \in Sessions |-> Navigating]

NextIsolation ==
    \/ \E s \in Sequential, account \in AccountIds \cup {None}, qty \in {1} :
            /\ transactions = {OtherUserTransaction}
            /\ \A i \in investments : i.quantity \in HeldQuantities
            /\ buy_load_accounts(s, account, 1, qty, "ok") /\ Observe(s)
    \/ \E s \in Sequential : buy_load_portfolios(s, "ok")
    \/ \E s \in Sequential : buy_load_asset_types(s, "ok")
    \/ \E s \in Sequential : buy_load_assets(s, "ok")
    \/ \E s \in Sequential : buy_debit(s, "ok")
    \/ \E s \in Sequential : buy_get_investments(s, "ok")
    \/ \E s \in Sequential : buy_update_investment(s, "ok")
    \/ \E s \in Sequential : buy_add_investment(s, "ok")
    \/ \E s \in Sequential : buy_add_transaction(s, "ok")
    \/ \E s \in Sequential : rerun(s) /\ Forget(s)
    \/ \E s \in Sequential, a \in AccountIds, b \in NewBalances :
            manage_accounts_update_balance(s, a, b, "ok")
    \/ \E s \in Sequential, a \in AccountIds : manage_accounts_delete(s, a, "ok")
    \/ \E s \in Sequential, q \in PortfolioIds \cup {OtherUserPortfolio.portfolio_id} :
            /\ lastrowid(investments, "investment_id") \in InvestmentIds \cup {4}
            /\ manage_investments_add(s, q, Min(AssetTypeIds), 1, 1, "ok")
    \/ \E s \in Sequential, i \in InvestmentIds,
          q \in PortfolioIds \cup {OtherUserPortfolio.portfolio_id} :
            manage_investments_update(s, i, q, 0, "ok")
    \/ \E s \in Sequential, i \in InvestmentIds : manage_investments_delete(s, i, "ok")
    \/ \E s \in Sequential, q \in PortfolioIds \cup {OtherUserPortfolio.portfolio_id} :
            manage_portfolios_delete(s, q, "ok")
    \/ \E s \in Sequential, a \in AccountIds \cup {None}, i \in InvestmentIds \cup {None} :
            /\ lastrowid(transactions, "transaction_id") \in TransactionIds
            /\ manage_transactions_add(s, "Sell", 1, a, i, "ok")
    \/ \E s \in Sequential, x \in TransactionIds : manage_transactions_delete(s, x)

SpecIsolation == InitIsolation /\ [][NextIsolation]_vars

\* what load_data reads for the user
Visible(user_id) ==
    [accounts |-> get_accounts_by_user(user_id),
     portfolios |-> get_portfolios_by_user(user_id),
     investments |-> get_investments_by_user(user_id),
     transactions |-> get_transactions_by_user(user_id),
     asset_types |-> asset_types,
     assets |-> assets]

\* the rows of the table that the step has written, created or removed
Touched(before, after) == (before \ after) \cup (after \ before)

\* row refers, in the column, to none or to a row of rows with that key that
\* the user owns
RefersToOwn(row, column, rows, key, user_id) ==
    row[column] # None => \E r \in OwnedRows(rows, user_id) : r[key] = row[column]

\* C28: a step of the session of a regular user writes, creates and removes
\* only rows of the four tables that carry the user's id; an investment it
\* stores is in a portfolio of the user, a transaction it stores is linked to
\* none or to an account and an investment of the user; the account and the
\* holding a buy works on are the user's; and what the other user's load_data
\* reads, and the other user's stored rows, stay as they are.
UsersAreIsolated ==
    /\ [](\A s \in Sequential :
            LET me == session_state[s].user_id
                run == session_state[s].run
            IN  (session_state[s].pc # "idle") =>
                    /\ RefersToOwn(run, "account_id", accounts, "account_id", me)
                    /\ RefersToOwn(run, "existing_investment", investments,
                                   "investment_id", me))
    /\ [][\A s \in Sequential :
            LET me == session_state[s].user_id
            IN  /\ \A r \in Touched(accounts, accounts') \cup Touched(portfolios, portfolios')
                        \cup Touched(investments, investments')
                        \cup Touched(transactions, transactions') : r.user_id = me
                /\ \A i \in investments' \ investments :
                        RefersToOwn(i, "portfolio_id", portfolios, "portfolio_id", me)
                /\ \A x \in transactions' \ transactions :
                        /\ RefersToOwn(x, "account_id", accounts, "account_id", me)
                        /\ RefersToOwn(x, "investment_id", investments', "investment_id", me)
                /\ \A u \in Users \ {me} :
                        /\ Visible(u)' = Visible(u)
                        /\ OwnedRows(accounts, u)' = OwnedRows(accounts, u)
                        /\ OwnedRows(portfolios, u)' = OwnedRows(portfolios, u)
                        /\ OwnedRows(investments, u)' = OwnedRows(investments, u)
                        /\ OwnedRows(transactions, u)' = OwnedRows(transactions, u)
      ]_vars

\* user 1 has bought into a holding that was then moved to the other
\* portfolio, and the other user's account, holding and transaction are there
UsersAreIsolatedWitness ==
    /\ \E x \in transactions : x.user_id = 1 /\ x.transaction_type = "Buy"
    /\ \E i \in investments : i.user_id = 1 /\ i.investment_id = 1 /\ i.portfolio_id = 2
    /\ BalanceOf(accounts, 2) = MaxBalance
    /\ OtherUserInvestment \in investments
    /\ OtherUserTransaction \in transactions

====
